---- MODULE Spec2Model ----
(***************************************************************************)
(* The three on-chain programs of sol-itaire: gaming-token (mint and       *)
(* time-locked staking), memecoin (pooled supply, game rewards, airdrops)  *)
(* and solitaire (escrowed games).  One action per instruction.  An        *)
(* instruction is the account validation declared by its Accounts struct   *)
(* followed by its handler; the runtime keeps the handler's writes only    *)
(* when the handler returns Ok.                                            *)
(*                                                                         *)
(* u64 values are little-endian sequences of base-256 limbs without high   *)
(* zero limbs, so that the full 64-bit range and its overflow are exact.   *)
(* Timestamps (i64 seconds) are integers, except lock_period and           *)
(* lock_until, which can leave their range and are sign and magnitude.     *)
(***************************************************************************)
EXTENDS Integers, Sequences, FiniteSets, TLC

VARIABLES
    program,          \* the program whose instructions this deployment runs
    now,              \* Clock::get()?.unix_timestamp
    overflow_checks,  \* build profile: TRUE = arithmetic overflow panics, FALSE = it wraps
    token,            \* Token Service ledger: token account -> balance, or NoToken
    mint_config,      \* gaming-token: mint -> MintConfig
    stake_account,    \* gaming-token: <<owner, mint>> -> StakeAccount
    memecoin_config,  \* memecoin: mint -> MemecoinConfig
    reward_account,   \* memecoin: <<player, game_id>> -> RewardAccount
    airdrop_account,  \* memecoin: recipient -> AirdropAccount
    game,             \* solitaire: <<authority, game_id>> -> GameAccount
    log_len,          \* number of events emitted so far
    mints_done,       \* number of successful mint_tokens (bounds the model)
    rewards_claimed,  \* history: <<owner, mint>> -> total paid to the stake by claim_rewards
    ticks,            \* number of clock steps taken (bounds the model)
    derived_bump,     \* Host Runtime derive: game_id -> bump of the escrow signer's address
    last              \* the instruction executed last: op, error, events, payout

vars == <<program, now, overflow_checks, token, mint_config, stake_account,
          memecoin_config, reward_account, airdrop_account, game, log_len,
          mints_done, rewards_claimed, ticks, derived_bump, last>>

\* an address that holds no account: of a program record, of the token ledger
NoAccount == [lamports |-> 0]
NoToken == <<-1>>

-----------------------------------------------------------------------------
(* Unbounded naturals as limb sequences *)

RECURSIVE Norm(_)
Norm(s) ==
    IF s = <<>> THEN <<>>
    ELSE IF s[Len(s)] = 0 THEN Norm(SubSeq(s, 1, Len(s) - 1)) ELSE s

RECURSIVE Big(_)
Big(n) == IF n = 0 THEN <<>> ELSE <<n % 256>> \o Big(n \div 256)

RECURSIVE BigToInt(_)
BigToInt(a) == IF a = <<>> THEN 0 ELSE Head(a) + 256 * BigToInt(Tail(a))

LimbAt(a, i) == IF i <= Len(a) THEN a[i] ELSE 0

RECURSIVE AddCarry(_, _, _, _)
AddCarry(a, b, i, c) ==
    IF i > Len(a) /\ i > Len(b)
    THEN (IF c = 0 THEN <<>> ELSE <<c>>)
    ELSE LET s == LimbAt(a, i) + LimbAt(b, i) + c
         IN  <<s % 256>> \o AddCarry(a, b, i + 1, s \div 256)

BigAdd(a, b) == AddCarry(a, b, 1, 0)

RECURSIVE SubBorrow(_, _, _, _)
SubBorrow(a, b, i, c) ==
    IF i > Len(a) THEN <<>>
    ELSE LET d == LimbAt(a, i) - LimbAt(b, i) - c
         IN  <<d % 256>> \o SubBorrow(a, b, i + 1, IF d < 0 THEN 1 ELSE 0)

RECURSIVE BigLess(_, _)
BigLess(a, b) ==
    IF Len(a) # Len(b) THEN Len(a) < Len(b)
    ELSE IF a = <<>> THEN FALSE
    ELSE IF a[Len(a)] # b[Len(b)] THEN a[Len(a)] < b[Len(b)]
    ELSE BigLess(Norm(SubSeq(a, 1, Len(a) - 1)), Norm(SubSeq(b, 1, Len(b) - 1)))

BigLeq(a, b) == a = b \/ BigLess(a, b)

\* a - b for b <= a
BigSub(a, b) == Norm(SubBorrow(a, b, 1, 0))

RECURSIVE MulLimb(_, _, _, _)
MulLimb(a, d, i, c) ==
    IF i > Len(a)
    THEN (IF c = 0 THEN <<>> ELSE <<c % 256>> \o MulLimb(a, d, i, c \div 256))
    ELSE LET p == a[i] * d + c
         IN  <<p % 256>> \o MulLimb(a, d, i + 1, p \div 256)

ShiftLimb(a) == IF a = <<>> THEN <<>> ELSE <<0>> \o a

RECURSIVE BigMul(_, _)
BigMul(a, b) ==
    IF a = <<>> \/ b = <<>> THEN <<>>
    ELSE BigAdd(Norm(MulLimb(a, Head(b), 1, 0)), ShiftLimb(BigMul(a, Tail(b))))

RECURSIVE DivLimbs(_, _, _, _)
DivLimbs(a, d, i, r) ==
    IF i = 0 THEN <<>>
    ELSE LET cur == r * 256 + a[i]
         IN  DivLimbs(a, d, i - 1, cur % d) \o <<cur \div d>>

\* floor(a / d) for an integer divisor 0 < d < 2^22
BigDivInt(a, d) == Norm(DivLimbs(a, d, Len(a), 0))

RECURSIVE BigDivAll(_, _)
BigDivAll(a, ds) == IF ds = <<>> THEN a ELSE BigDivAll(BigDivInt(a, Head(ds)), Tail(ds))

RECURSIVE BigSum(_)
BigSum(s) == IF s = <<>> THEN <<>> ELSE BigAdd(Head(s), BigSum(Tail(s)))

Zero == <<>>
U64Max == [i \in 1..8 |-> 255]

\* An i64 that may leave the range of the model's integers (lock_period and
\* lock_until): sign and magnitude.
I64(n) == [neg |-> n < 0, mag |-> Big(IF n < 0 THEN 0 - n ELSE n)]

I64Max == [neg |-> FALSE, mag |-> [i \in 1..8 |-> IF i = 8 THEN 127 ELSE 255]]

I64Positive(a) == ~a.neg /\ a.mag # Zero

\* clock + b in i64 for a clock >= 0: past i64::MAX the sum overflows, and a build
\* without overflow checks keeps the sum minus 2^64
i64_add(clock, b) ==
    IF b.neg
    THEN [ overflow |-> FALSE,
           value |-> IF BigLeq(b.mag, Big(clock))
                     THEN [neg |-> FALSE, mag |-> BigSub(Big(clock), b.mag)]
                     ELSE [neg |-> TRUE, mag |-> BigSub(b.mag, Big(clock))] ]
    ELSE LET s == BigAdd(Big(clock), b.mag)
         IN  IF BigLeq(s, I64Max.mag)
             THEN [overflow |-> FALSE, value |-> [neg |-> FALSE, mag |-> s]]
             ELSE [ overflow |-> TRUE,
                    value |-> [neg |-> TRUE,
                               mag |-> BigSub(BigAdd(U64Max, Big(1)), s)] ]

\* a <= clock for a clock >= 0
I64Leq(a, clock) == a.neg \/ BigLeq(a.mag, Big(clock))


-----------------------------------------------------------------------------
(* The universe of the model *)

Keys == {"alice", "bob"}
Deployers == {"alice"}       \* the keys that create the mints
Programs == {"gaming_token", "memecoin", "solitaire"}

GLD == "GLD"                  \* the mint created by gaming-token's initialize_mint
MEME == "MEME"                \* the mint created by memecoin's initialize_memecoin
CHIP == "CHIP"                \* an existing mint, used as solitaire's reward_mint
TokenMints == {GLD}
MemeMints == {MEME}
GameMints == {CHIP}
LongGameId == "a-game-id-of-thirty-three-bytes.."
GameIds == {"g1", LongGameId}
\* game_id.len()
GameIdLen(gid) == IF gid = LongGameId THEN 33 ELSE 2

\* the game ids an address can be derived from (a seed has at most 32 bytes), and
\* the bumps a derivation may come out with
PlayableIds == {gid \in GameIds : GameIdLen(gid) <= 32}
BumpValues == {0, 254, 255}

Wallet(k, m) == <<"wallet", k, m>>
StakeVault(m) == <<"stake_vault", m>>
RewardVault(m) == <<"reward_vault", m>>
Pool(name, m) == <<"pool", name, m>>
Escrow(gid, m) == <<"escrow", gid, m>>

PoolNames == {"game_rewards", "liquidity", "team", "community", "airdrop_pool"}
Wallets == {Wallet(k, m) : k \in Keys, m \in TokenMints \cup MemeMints \cup GameMints}
TokenVaults == {StakeVault(m) : m \in TokenMints} \cup {RewardVault(m) : m \in TokenMints}
Pools == {Pool(n, m) : n \in PoolNames, m \in MemeMints}
Escrows == {Escrow(gid, m) : gid \in GameIds, m \in GameMints}
TokenAccounts == Wallets \cup TokenVaults \cup Pools \cup Escrows

\* the mint a token account holds
MintOf(a) == a[Len(a)]

StakeIds == Keys \X TokenMints
RewardIds == Keys \X GameIds
GameKeys == Keys \X GameIds

Epoch == 1700000000
HalfYear == 365 * 12 * 60 * 60
Year == 365 * 24 * 60 * 60
MaxTicks == 2
MaxMints == 3
MaxMoves == 2

\* the clock steps taken: half a year for staking rewards; one second short of
\* the airdrop delay and of the inactivity period, and then that second
ClockSteps(p, n) ==
    IF p = "gaming_token" THEN {HalfYear}
    ELSE IF p = "memecoin" THEN (IF n % 2 = 0 THEN {3599} ELSE {1})
    ELSE IF n % 2 = 0 THEN {86399} ELSE {1}

\* gaming-token inputs
MintAmounts == {Zero, Big(1000000), U64Max}
\* (2^64 + 4) / 5: the smallest stake whose amount * 5 exceeds u64
WrappingStake == BigDivInt(BigAdd(U64Max, Big(5)), 5)
StakeAmounts == {Zero, Big(25), Big(1000000), WrappingStake, U64Max}
LockPeriods == {I64(0), I64(Year), I64Max}
\* <<name length, symbol length, decimals>>
MintArgs == {<<8, 3, 6>>, <<33, 3, 6>>, <<8, 11, 6>>, <<8, 3, 10>>}

\* memecoin inputs
\* 2^63: every pool product total_supply * pct is a multiple of 2^64
WrappingSupply == [i \in 1..8 |-> IF i = 8 THEN 128 ELSE 0]
SupplyIn == {Zero, Big(1000), Big(5005), WrappingSupply}
RewardAmounts == {Zero, Big(1000), Big(2001)}
AirdropAmounts == {Zero, Big(500)}
ClaimDelays == {0, 3600}

\* solitaire inputs
InitialChips == Big(100)
GameStakes == {Zero, Big(25), Big(100), Big(1000)}
FinalScores == {Big(42)}

World ==
    [ overflow_checks |-> overflow_checks,
      token |-> token,
      mint_config |-> mint_config,
      stake_account |-> stake_account,
      memecoin_config |-> memecoin_config,
      reward_account |-> reward_account,
      airdrop_account |-> airdrop_account,
      game |-> game ]

\* what a handler hands back: the error (or Ok), the accounts as written so far,
\* the events emitted and the amount paid to the user
Fail(w, e) == [err |-> e, w |-> w, events |-> <<>>, paid |-> Zero]
Done(w, evs, amt) == [err |-> "Ok", w |-> w, events |-> evs, paid |-> amt]

-----------------------------------------------------------------------------
(* Token Service: mint_to and transfer on the ledger *)

TokenMintTo(ledger, m, to, amount) ==
    IF ledger[to] = NoToken THEN [err |-> "TokenServiceFailure", ledger |-> ledger]
    ELSE IF MintOf(to) # m THEN [err |-> "TokenServiceFailure", ledger |-> ledger]
    ELSE LET s == BigAdd(ledger[to], amount)
         IN  IF BigLess(U64Max, s) THEN [err |-> "TokenServiceFailure", ledger |-> ledger]
             ELSE [err |-> "Ok", ledger |-> [ledger EXCEPT ![to] = s]]

TokenTransfer(ledger, from, to, amount) ==
    IF ledger[from] = NoToken \/ ledger[to] = NoToken
    THEN [err |-> "TokenServiceFailure", ledger |-> ledger]
    ELSE IF MintOf(from) # MintOf(to) THEN [err |-> "TokenServiceFailure", ledger |-> ledger]
    ELSE IF BigLess(ledger[from], amount) THEN [err |-> "InsufficientFunds", ledger |-> ledger]
    ELSE IF from = to THEN [err |-> "Ok", ledger |-> ledger]
    ELSE LET s == BigAdd(ledger[to], amount)
         IN  IF BigLess(U64Max, s) THEN [err |-> "TokenServiceFailure", ledger |-> ledger]
             ELSE [err |-> "Ok",
                   ledger |-> [ledger EXCEPT ![from] = BigSub(ledger[from], amount),
                                             ![to] = s]]

-----------------------------------------------------------------------------
(* u64 arithmetic of the handlers: the exact result, whether it overflows, *)
(* and the value a wrapping build keeps                                    *)

Wrap64(x) == IF Len(x) > 8 THEN Norm(SubSeq(x, 1, 8)) ELSE x
U64(x) == [overflow |-> Len(x) > 8, value |-> Wrap64(x)]
u64_add(a, b) == U64(BigAdd(a, b))
u64_mul(a, b) == U64(BigMul(a, b))

\* 100 * 365 * 24 * 60 * 60
RewardDivisor == <<100, 365, 24, 60, 60>>

\* (amount * 5 * elapsed as u64) / (100 * 365 * 24 * 60 * 60), left to right
reward_amount(amount, elapsed) ==
    LET m1 == u64_mul(amount, Big(5))
        m2 == u64_mul(m1.value, Big(elapsed))
    IN  [overflow |-> m1.overflow \/ m2.overflow,
         value |-> BigDivAll(m2.value, RewardDivisor)]

-----------------------------------------------------------------------------
(* gaming-token: records *)

NoKey == "11111111111111111111111111111111"   \* Pubkey::default()

ZeroedMintConfig ==
    [ authority |-> NoKey, mint |-> NoKey, token_name |-> 0, token_symbol |-> 0,
      decimals |-> 0, total_supply |-> Zero, is_initialized |-> FALSE, created_at |-> 0 ]

ZeroedStakeAccount ==
    [ owner |-> NoKey, mint |-> NoKey, amount |-> Zero, lock_until |-> I64(0),
      created_at |-> 0, last_reward_claim |-> 0, is_active |-> FALSE ]

-----------------------------------------------------------------------------
(* gaming-token: account validation (the Accounts structs) *)

\* init mint_config at ["mint_config", mint]; init mint
InitializeMint(w, caller, m) ==
    IF w.mint_config[m] # NoAccount THEN Fail(w, "AccountAlreadyInUse")
    ELSE Done([w EXCEPT !.mint_config[m] = ZeroedMintConfig], <<>>, Zero)

\* mut, has_one = authority
MintTokens(w, caller, m, to) ==
    IF w.mint_config[m] = NoAccount THEN Fail(w, "AccountNotInitialized")
    ELSE IF w.mint_config[m].authority # caller THEN Fail(w, "ConstraintHasOne")
    ELSE IF w.token[to] = NoToken THEN Fail(w, "AccountNotInitialized")
    ELSE Done(w, <<>>, Zero)

\* a faulty validation that declares the three accounts init_if_needed
StakeTokens_init_if_needed(w, caller, m) ==
    LET w1 == IF w.stake_account[<<caller, m>>] # NoAccount THEN w
              ELSE [w EXCEPT !.stake_account[<<caller, m>>] = ZeroedStakeAccount]
        w2 == IF w1.token[StakeVault(m)] # NoToken THEN w1
              ELSE [w1 EXCEPT !.token[StakeVault(m)] = Zero]
        w3 == IF w2.token[RewardVault(m)] # NoToken THEN w2
              ELSE [w2 EXCEPT !.token[RewardVault(m)] = Zero]
    IN  IF w3.mint_config[m] = NoAccount THEN Fail(w3, "AccountNotInitialized")
        ELSE Done(w3, <<>>, Zero)

\* init stake_account at ["stake", authority, mint]; init stake_vault at
\* ["stake_vault", mint]; init reward_vault at ["reward_vault", mint]
StakeTokens(w, caller, m) ==
    IF w.stake_account[<<caller, m>>] # NoAccount THEN Fail(w, "AccountAlreadyInUse")
    ELSE LET w1 == [w EXCEPT !.stake_account[<<caller, m>>] = ZeroedStakeAccount]
         IN  IF w1.token[StakeVault(m)] # NoToken THEN Fail(w1, "AccountAlreadyInUse")
             ELSE LET w2 == [w1 EXCEPT !.token[StakeVault(m)] = Zero]
                  IN  IF w2.token[RewardVault(m)] # NoToken
                      THEN Fail(w2, "AccountAlreadyInUse")
                      ELSE LET w3 == [w2 EXCEPT !.token[RewardVault(m)] = Zero]
                           IN  IF w3.mint_config[m] = NoAccount
                               THEN Fail(w3, "AccountNotInitialized")
                               ELSE Done(w3, <<>>, Zero)

\* mut, has_one = owner, constraint = stake_account.is_active @ StakeNotActive
UnstakeTokens(w, caller, sid) ==
    IF w.stake_account[sid] = NoAccount THEN Fail(w, "AccountNotInitialized")
    ELSE IF w.stake_account[sid].owner # caller THEN Fail(w, "ConstraintHasOne")
    ELSE IF ~w.stake_account[sid].is_active THEN Fail(w, "StakeNotActive")
    ELSE Done(w, <<>>, Zero)

\* mut, has_one = owner, constraint = stake_account.is_active @ StakeNotActive
ClaimRewards(w, caller, sid) ==
    IF w.stake_account[sid] = NoAccount THEN Fail(w, "AccountNotInitialized")
    ELSE IF w.stake_account[sid].owner # caller THEN Fail(w, "ConstraintHasOne")
    ELSE IF ~w.stake_account[sid].is_active THEN Fail(w, "StakeNotActive")
    ELSE Done(w, <<>>, Zero)

-----------------------------------------------------------------------------
(* gaming-token: handlers *)

initialize_mint(w, clock, caller, m, token_name, token_symbol, decimals) ==
    IF ~(token_name <= 32) THEN Fail(w, "NameTooLong")
    ELSE IF ~(token_symbol <= 10) THEN Fail(w, "SymbolTooLong")
    ELSE IF ~(decimals <= 9) THEN Fail(w, "InvalidDecimals")
    ELSE LET cfg == [ authority |-> caller, mint |-> m, token_name |-> token_name,
                      token_symbol |-> token_symbol, decimals |-> decimals,
                      total_supply |-> Zero, is_initialized |-> TRUE,
                      created_at |-> clock ]
         IN  Done([w EXCEPT !.mint_config[m] = cfg],
                  << [type |-> "MintInitialized", mint |-> m, authority |-> caller,
                      timestamp |-> clock] >>, Zero)

mint_tokens(w, clock, caller, m, to, amount) ==
    LET cfg == w.mint_config[m] IN
    IF ~BigLess(Zero, amount) THEN Fail(w, "InvalidAmount")
    ELSE IF caller # cfg.authority THEN Fail(w, "Unauthorized")
    ELSE LET t == TokenMintTo(w.token, m, to, amount) IN
         IF t.err # "Ok" THEN Fail(w, t.err)
         ELSE LET w1 == [w EXCEPT !.token = t.ledger]
                  s == u64_add(cfg.total_supply, amount)
              IN  IF s.overflow /\ w.overflow_checks THEN Fail(w1, "Panic")
                  ELSE Done([w1 EXCEPT !.mint_config[m].total_supply = s.value],
                            << [type |-> "TokensMinted", mint |-> m, to |-> to,
                                amount |-> amount, new_supply |-> s.value,
                                timestamp |-> clock] >>, Zero)

stake_tokens(w, clock, caller, m, amount, lock_period) ==
    IF ~BigLess(Zero, amount) THEN Fail(w, "InvalidAmount")
    ELSE IF ~I64Positive(lock_period) THEN Fail(w, "InvalidLockPeriod")
    ELSE LET t == TokenTransfer(w.token, Wallet(caller, m), StakeVault(m), amount)
             lock_until == i64_add(clock, lock_period)
         IN
         IF t.err # "Ok" THEN Fail(w, t.err)
         ELSE IF lock_until.overflow /\ w.overflow_checks
         THEN Fail([w EXCEPT !.token = t.ledger,
                             !.stake_account[<<caller, m>>].owner = caller,
                             !.stake_account[<<caller, m>>].amount = amount], "Panic")
         ELSE LET st == [ w.stake_account[<<caller, m>>] EXCEPT
                            !.owner = caller, !.amount = amount,
                            !.lock_until = lock_until.value,
                            !.created_at = clock, !.last_reward_claim = clock,
                            !.is_active = TRUE ]
              IN  Done([w EXCEPT !.token = t.ledger, !.stake_account[<<caller, m>>] = st],
                       << [type |-> "TokensStaked", owner |-> caller, amount |-> amount,
                           lock_until |-> st.lock_until, timestamp |-> clock] >>, Zero)

\* a faulty unstake_tokens that leaves the stake active
unstake_tokens_stays_active(w, clock, caller, sid) ==
    LET st == w.stake_account[sid]
        m == sid[2]
    IN
    IF ~st.is_active THEN Fail(w, "StakeNotActive")
    ELSE IF caller # st.owner THEN Fail(w, "Unauthorized")
    ELSE IF ~I64Leq(st.lock_until, clock) THEN Fail(w, "TokensStillLocked")
    ELSE LET time_staked == clock - st.created_at
             reward == reward_amount(st.amount, time_staked)
             total == u64_add(st.amount, reward.value)
         IN  IF (reward.overflow \/ total.overflow) /\ w.overflow_checks
             THEN Fail(w, "Panic")
             ELSE LET t == TokenTransfer(w.token, StakeVault(m), Wallet(caller, m),
                                         total.value)
                  IN  IF t.err # "Ok" THEN Fail(w, t.err)
                      ELSE Done([w EXCEPT !.token = t.ledger],
                                << [type |-> "TokensUnstaked", owner |-> st.owner,
                                    principal |-> st.amount, reward |-> reward.value,
                                    total |-> total.value, timestamp |-> clock] >>,
                                total.value)

unstake_tokens(w, clock, caller, sid) ==
    LET st == w.stake_account[sid]
        m == sid[2]
    IN
    IF ~st.is_active THEN Fail(w, "StakeNotActive")
    ELSE IF caller # st.owner THEN Fail(w, "Unauthorized")
    ELSE IF ~I64Leq(st.lock_until, clock) THEN Fail(w, "TokensStillLocked")
    ELSE LET time_staked == clock - st.created_at
             reward == reward_amount(st.amount, time_staked)
             total == u64_add(st.amount, reward.value)
         IN  IF (reward.overflow \/ total.overflow) /\ w.overflow_checks
             THEN Fail(w, "Panic")
             ELSE LET t == TokenTransfer(w.token, StakeVault(m), Wallet(caller, m),
                                         total.value)
                  IN  IF t.err # "Ok" THEN Fail(w, t.err)
                      ELSE Done([w EXCEPT !.token = t.ledger,
                                          !.stake_account[sid].is_active = FALSE],
                                << [type |-> "TokensUnstaked", owner |-> st.owner,
                                    principal |-> st.amount, reward |-> reward.value,
                                    total |-> total.value, timestamp |-> clock] >>,
                                total.value)

\* a faulty claim_rewards that always pays for the time since the stake was made
claim_rewards_since_creation(w, clock, caller, sid) ==
    LET st == w.stake_account[sid]
        m == sid[2]
    IN
    IF ~st.is_active THEN Fail(w, "StakeNotActive")
    ELSE IF caller # st.owner THEN Fail(w, "Unauthorized")
    ELSE LET time_since_last_claim == clock - st.created_at
             reward == reward_amount(st.amount, time_since_last_claim)
         IN  IF reward.overflow /\ w.overflow_checks THEN Fail(w, "Panic")
             ELSE IF BigLess(Zero, reward.value)
             THEN LET t == TokenTransfer(w.token, RewardVault(m), Wallet(caller, m),
                                         reward.value)
                  IN  IF t.err # "Ok" THEN Fail(w, t.err)
                      ELSE Done([w EXCEPT !.token = t.ledger,
                                          !.stake_account[sid].last_reward_claim = clock],
                                << [type |-> "RewardsClaimed", owner |-> st.owner,
                                    amount |-> reward.value, timestamp |-> clock] >>,
                                reward.value)
             ELSE Done(w, <<>>, Zero)

claim_rewards(w, clock, caller, sid) ==
    LET st == w.stake_account[sid]
        m == sid[2]
    IN
    IF ~st.is_active THEN Fail(w, "StakeNotActive")
    ELSE IF caller # st.owner THEN Fail(w, "Unauthorized")
    ELSE LET time_since_last_claim == clock - st.last_reward_claim
             reward == reward_amount(st.amount, time_since_last_claim)
         IN  IF reward.overflow /\ w.overflow_checks THEN Fail(w, "Panic")
             ELSE IF BigLess(Zero, reward.value)
             THEN LET t == TokenTransfer(w.token, RewardVault(m), Wallet(caller, m),
                                         reward.value)
                  IN  IF t.err # "Ok" THEN Fail(w, t.err)
                      ELSE Done([w EXCEPT !.token = t.ledger,
                                          !.stake_account[sid].last_reward_claim = clock],
                                << [type |-> "RewardsClaimed", owner |-> st.owner,
                                    amount |-> reward.value, timestamp |-> clock] >>,
                                reward.value)
             ELSE Done(w, <<>>, Zero)


-----------------------------------------------------------------------------
(* memecoin: records *)

ZeroedMemecoinConfig ==
    [ authority |-> NoKey, mint |-> NoKey, token_name |-> 0, token_symbol |-> 0,
      decimals |-> 0, total_supply |-> Zero, circulating_supply |-> Zero,
      game_rewards_pool |-> Zero, liquidity_pool |-> Zero, team_allocation |-> Zero,
      community_allocation |-> Zero, is_initialized |-> FALSE, created_at |-> 0 ]

ZeroedRewardAccount ==
    [ player |-> NoKey, game_id |-> "", amount |-> Zero, timestamp |-> 0 ]

\* claimed_at: Option<i64>, None = <<>>, Some(t) = <<t>>
ZeroedAirdropAccount ==
    [ recipient |-> NoKey, mint |-> NoKey, amount |-> Zero, claimable_at |-> 0,
      claimed |-> FALSE, created_at |-> 0, claimed_at |-> <<>> ]

-----------------------------------------------------------------------------
(* memecoin: account validation (the Accounts structs) *)

\* init memecoin_config at ["memecoin_config", mint]; init mint
InitializeMemecoin(w, caller, m) ==
    IF w.memecoin_config[m] # NoAccount THEN Fail(w, "AccountAlreadyInUse")
    ELSE Done([w EXCEPT !.memecoin_config[m] = ZeroedMemecoinConfig], <<>>, Zero)

RECURSIVE InitIfNeeded(_, _)
InitIfNeeded(ledger, accts) ==
    IF accts = <<>> THEN ledger
    ELSE LET a == Head(accts)
         IN  InitIfNeeded(IF ledger[a] = NoToken THEN [ledger EXCEPT ![a] = Zero]
                          ELSE ledger, Tail(accts))

\* mut, has_one = authority; four token accounts init_if_needed
DistributeInitialSupply(w, caller, m, community) ==
    IF w.memecoin_config[m] = NoAccount THEN Fail(w, "AccountNotInitialized")
    ELSE LET w1 == [w EXCEPT !.token = InitIfNeeded(w.token,
                        << Pool("game_rewards", m), Pool("liquidity", m),
                           Pool("team", m), community >>)]
         IN  IF w1.memecoin_config[m].authority # caller
             THEN Fail(w1, "ConstraintHasOne")
             ELSE Done(w1, <<>>, Zero)

\* a faulty validation that declares rewards_account init_if_needed
DistributeGameRewards_init_if_needed(w, caller, m, player, game_id) ==
    IF w.memecoin_config[m] = NoAccount THEN Fail(w, "AccountNotInitialized")
    ELSE LET w1 == IF w.reward_account[<<player, game_id>>] # NoAccount THEN w
                   ELSE [w EXCEPT !.reward_account[<<player, game_id>>] =
                                      ZeroedRewardAccount]
         IN  IF w1.token[Pool("game_rewards", m)] = NoToken
             THEN Fail(w1, "AccountNotInitialized")
             ELSE LET w2 == [w1 EXCEPT !.token = InitIfNeeded(w1.token,
                                                              <<Wallet(player, m)>>)]
                  IN  IF w2.memecoin_config[m].authority # caller
                      THEN Fail(w2, "ConstraintHasOne")
                      ELSE Done(w2, <<>>, Zero)

\* mut, has_one = authority; init rewards_account at ["reward", player, game_id];
\* mut game_rewards_account; init_if_needed player_account
DistributeGameRewards(w, caller, m, player, game_id) ==
    IF w.memecoin_config[m] = NoAccount THEN Fail(w, "AccountNotInitialized")
    ELSE IF w.reward_account[<<player, game_id>>] # NoAccount
    THEN Fail(w, "AccountAlreadyInUse")
    ELSE LET w1 == [w EXCEPT !.reward_account[<<player, game_id>>] = ZeroedRewardAccount]
         IN  IF w1.token[Pool("game_rewards", m)] = NoToken
             THEN Fail(w1, "AccountNotInitialized")
             ELSE LET w2 == [w1 EXCEPT !.token = InitIfNeeded(w1.token,
                                                              <<Wallet(player, m)>>)]
                  IN  IF w2.memecoin_config[m].authority # caller
                      THEN Fail(w2, "ConstraintHasOne")
                      ELSE Done(w2, <<>>, Zero)

\* mut, has_one = mint, constraint = !airdrop_account.claimed @ AlreadyClaimed;
\* authority: constraint = authority.key() == airdrop_account.recipient
ClaimAirdrop(w, caller, recipient, m) ==
    IF w.airdrop_account[recipient] = NoAccount THEN Fail(w, "AccountNotInitialized")
    ELSE IF w.token[Pool("airdrop_pool", m)] = NoToken
    THEN Fail(w, "AccountNotInitialized")
    ELSE IF w.airdrop_account[recipient].mint # m THEN Fail(w, "ConstraintHasOne")
    ELSE IF w.airdrop_account[recipient].claimed THEN Fail(w, "AlreadyClaimed")
    ELSE IF caller # w.airdrop_account[recipient].recipient THEN Fail(w, "ConstraintRaw")
    ELSE Done(w, <<>>, Zero)

\* a faulty validation that declares airdrop_account init_if_needed
SetupAirdropAccount_init_if_needed(w, caller, m) ==
    LET w1 == IF w.airdrop_account[caller] # NoAccount THEN w
              ELSE [w EXCEPT !.airdrop_account[caller] = ZeroedAirdropAccount]
    IN  IF w1.memecoin_config[m] = NoAccount THEN Fail(w1, "AccountNotInitialized")
        ELSE Done(w1, <<>>, Zero)

\* init airdrop_account at ["airdrop", authority]; mint
SetupAirdropAccount(w, caller, m) ==
    IF w.airdrop_account[caller] # NoAccount THEN Fail(w, "AccountAlreadyInUse")
    ELSE LET w1 == [w EXCEPT !.airdrop_account[caller] = ZeroedAirdropAccount]
         IN  IF w1.memecoin_config[m] = NoAccount THEN Fail(w1, "AccountNotInitialized")
             ELSE Done(w1, <<>>, Zero)

-----------------------------------------------------------------------------
(* memecoin: handlers *)

\* total_supply * pct / 100
pool_share(total_supply, pct) ==
    LET p == u64_mul(total_supply, Big(pct))
    IN  [overflow |-> p.overflow, value |-> BigDivInt(p.value, 100)]

initialize_memecoin(w, clock, caller, m, token_name, token_symbol, decimals, total_supply) ==
    IF ~(token_name <= 32) THEN Fail(w, "NameTooLong")
    ELSE IF ~(token_symbol <= 10) THEN Fail(w, "SymbolTooLong")
    ELSE IF ~(decimals <= 9) THEN Fail(w, "InvalidDecimals")
    ELSE IF ~BigLess(Zero, total_supply) THEN Fail(w, "InvalidSupply")
    ELSE LET c1 == [ w.memecoin_config[m] EXCEPT
                       !.authority = caller, !.mint = m, !.token_name = token_name,
                       !.token_symbol = token_symbol, !.decimals = decimals,
                       !.total_supply = total_supply, !.circulating_supply = Zero,
                       !.is_initialized = TRUE, !.created_at = clock ]
             g == pool_share(total_supply, 40)
             l == pool_share(total_supply, 30)
             t == pool_share(total_supply, 20)
             c == pool_share(total_supply, 10)
             c2 == [ c1 EXCEPT !.game_rewards_pool = g.value, !.liquidity_pool = l.value,
                               !.team_allocation = t.value,
                               !.community_allocation = c.value ]
         IN  IF (g.overflow \/ l.overflow \/ t.overflow \/ c.overflow)
                /\ w.overflow_checks
             THEN Fail([w EXCEPT !.memecoin_config[m] = c1], "Panic")
             ELSE Done([w EXCEPT !.memecoin_config[m] = c2],
                       << [type |-> "MemecoinInitialized", mint |-> m,
                           total_supply |-> total_supply, authority |-> caller,
                           timestamp |-> clock] >>, Zero)

\* the four token::mint_to calls, in order; stops at the first that fails
RECURSIVE MintEach(_, _, _)
MintEach(ledger, m, mints) ==
    IF mints = <<>> THEN [err |-> "Ok", ledger |-> ledger]
    ELSE LET t == TokenMintTo(ledger, m, Head(mints)[1], Head(mints)[2])
         IN  IF t.err # "Ok" THEN t ELSE MintEach(t.ledger, m, Tail(mints))

distribution_order(cfg, m, community) ==
    << <<Pool("game_rewards", m), cfg.game_rewards_pool>>,
       <<Pool("liquidity", m), cfg.liquidity_pool>>,
       <<Pool("team", m), cfg.team_allocation>>,
       <<community, cfg.community_allocation>> >>

\* a faulty distribute_initial_supply that leaves circulating_supply at 0
distribute_initial_supply_unrecorded(w, clock, caller, m, community) ==
    LET cfg == w.memecoin_config[m] IN
    IF caller # cfg.authority THEN Fail(w, "Unauthorized")
    ELSE IF cfg.circulating_supply # Zero THEN Fail(w, "AlreadyDistributed")
    ELSE LET t == MintEach(w.token, m, distribution_order(cfg, m, community)) IN
         IF t.err # "Ok" THEN Fail([w EXCEPT !.token = t.ledger], t.err)
         ELSE Done([w EXCEPT !.token = t.ledger],
                   << [type |-> "InitialSupplyDistributed", mint |-> m,
                       total_amount |-> cfg.total_supply, timestamp |-> clock] >>, Zero)

distribute_initial_supply(w, clock, caller, m, community) ==
    LET cfg == w.memecoin_config[m] IN
    IF caller # cfg.authority THEN Fail(w, "Unauthorized")
    ELSE IF cfg.circulating_supply # Zero THEN Fail(w, "AlreadyDistributed")
    ELSE LET t == MintEach(w.token, m, distribution_order(cfg, m, community)) IN
         IF t.err # "Ok" THEN Fail([w EXCEPT !.token = t.ledger], t.err)
         ELSE Done([w EXCEPT !.token = t.ledger,
                             !.memecoin_config[m].circulating_supply = cfg.total_supply],
                   << [type |-> "InitialSupplyDistributed", mint |-> m,
                       total_amount |-> cfg.total_supply, timestamp |-> clock] >>, Zero)

\* a faulty handler that leaves the balance check to the Token Service
distribute_game_rewards_unchecked(w, clock, caller, m, player, amount, game_id) ==
    LET cfg == w.memecoin_config[m] IN
    IF ~BigLess(Zero, amount) THEN Fail(w, "InvalidAmount")
    ELSE IF ~(GameIdLen(game_id) <= 32) THEN Fail(w, "GameIdTooLong")
    ELSE IF caller # cfg.authority THEN Fail(w, "Unauthorized")
    ELSE LET t == TokenTransfer(w.token, Pool("game_rewards", m), Wallet(player, m),
                                amount)
         IN  IF t.err # "Ok" THEN Fail(w, t.err)
             ELSE Done([w EXCEPT !.token = t.ledger,
                                 !.reward_account[<<player, game_id>>] =
                                     [ player |-> player, game_id |-> game_id,
                                       amount |-> amount, timestamp |-> clock ]],
                       << [type |-> "GameRewardDistributed", player |-> player,
                           amount |-> amount, game_id |-> game_id,
                           timestamp |-> clock] >>, amount)

distribute_game_rewards(w, clock, caller, m, player, amount, game_id) ==
    LET cfg == w.memecoin_config[m] IN
    IF ~BigLess(Zero, amount) THEN Fail(w, "InvalidAmount")
    ELSE IF ~(GameIdLen(game_id) <= 32) THEN Fail(w, "GameIdTooLong")
    ELSE IF caller # cfg.authority THEN Fail(w, "Unauthorized")
    ELSE IF ~BigLeq(amount, w.token[Pool("game_rewards", m)])
    THEN Fail(w, "InsufficientRewards")
    ELSE LET t == TokenTransfer(w.token, Pool("game_rewards", m), Wallet(player, m),
                                amount)
         IN  IF t.err # "Ok" THEN Fail(w, t.err)
             ELSE Done([w EXCEPT !.token = t.ledger,
                                 !.reward_account[<<player, game_id>>] =
                                     [ player |-> player, game_id |-> game_id,
                                       amount |-> amount, timestamp |-> clock ]],
                       << [type |-> "GameRewardDistributed", player |-> player,
                           amount |-> amount, game_id |-> game_id,
                           timestamp |-> clock] >>, amount)

\* a faulty handler that opens the airdrop one second late
claim_airdrop_strictly_after(w, clock, caller, recipient, m) ==
    LET a == w.airdrop_account[recipient] IN
    IF caller # a.recipient THEN Fail(w, "Unauthorized")
    ELSE IF a.claimed THEN Fail(w, "AlreadyClaimed")
    ELSE IF ~(clock > a.claimable_at) THEN Fail(w, "AirdropNotAvailable")
    ELSE LET t == TokenTransfer(w.token, Pool("airdrop_pool", m),
                                Wallet(caller, m), a.amount)
         IN  IF t.err # "Ok" THEN Fail(w, t.err)
             ELSE Done([w EXCEPT !.token = t.ledger,
                                 !.airdrop_account[recipient].claimed = TRUE,
                                 !.airdrop_account[recipient].claimed_at = <<clock>>],
                       << [type |-> "AirdropClaimed", recipient |-> a.recipient,
                           amount |-> a.amount, timestamp |-> clock] >>, a.amount)

claim_airdrop(w, clock, caller, recipient, m) ==
    LET a == w.airdrop_account[recipient] IN
    IF caller # a.recipient THEN Fail(w, "Unauthorized")
    ELSE IF a.claimed THEN Fail(w, "AlreadyClaimed")
    ELSE IF ~(clock >= a.claimable_at) THEN Fail(w, "AirdropNotAvailable")
    ELSE LET t == TokenTransfer(w.token, Pool("airdrop_pool", m),
                                Wallet(caller, m), a.amount)
         IN  IF t.err # "Ok" THEN Fail(w, t.err)
             ELSE Done([w EXCEPT !.token = t.ledger,
                                 !.airdrop_account[recipient].claimed = TRUE,
                                 !.airdrop_account[recipient].claimed_at = <<clock>>],
                       << [type |-> "AirdropClaimed", recipient |-> a.recipient,
                           amount |-> a.amount, timestamp |-> clock] >>, a.amount)

\* a faulty handler that accepts a claim time equal to the clock
setup_airdrop_account_accepts_now(w, clock, caller, m, amount, claimable_at) ==
    IF ~BigLess(Zero, amount) THEN Fail(w, "InvalidAmount")
    ELSE IF ~(claimable_at >= clock) THEN Fail(w, "InvalidClaimTime")
    ELSE Done([w EXCEPT !.airdrop_account[caller] =
                   [ @ EXCEPT !.recipient = caller, !.mint = m, !.amount = amount,
                              !.claimable_at = claimable_at, !.claimed = FALSE,
                              !.created_at = clock ]],
              << [type |-> "AirdropAccountSetup", recipient |-> caller,
                  amount |-> amount, claimable_at |-> claimable_at,
                  timestamp |-> clock] >>, Zero)

setup_airdrop_account(w, clock, caller, m, amount, claimable_at) ==
    IF ~BigLess(Zero, amount) THEN Fail(w, "InvalidAmount")
    ELSE IF ~(claimable_at > clock) THEN Fail(w, "InvalidClaimTime")
    ELSE Done([w EXCEPT !.airdrop_account[caller] =
                   [ @ EXCEPT !.recipient = caller, !.mint = m, !.amount = amount,
                              !.claimable_at = claimable_at, !.claimed = FALSE,
                              !.created_at = clock ]],
              << [type |-> "AirdropAccountSetup", recipient |-> caller,
                  amount |-> amount, claimable_at |-> claimable_at,
                  timestamp |-> clock] >>, Zero)

-----------------------------------------------------------------------------
(* solitaire: records *)

\* GameState::new(player); end_time: Option<i64>, None = <<>>
NewGameState(player, clock) ==
    [ player |-> player, piles |-> <<>>, moves |-> 0, score |-> Zero,
      is_won |-> FALSE, is_complete |-> FALSE, start_time |-> clock,
      end_time |-> <<>> ]

ZeroedGameAccount ==
    [ authority |-> NoKey, game_id |-> "", stake_amount |-> Zero, reward_mint |-> NoKey,
      status |-> "Active", moves |-> 0, score |-> Zero, is_won |-> FALSE,
      created_at |-> 0, updated_at |-> 0, game_state |-> NewGameState(NoKey, 0),
      bump |-> 0 ]

\* a faulty stub that declares the game won on its first move
GameState_make_move_wins(gs) ==
    [gs EXCEPT !.moves = @ + 1, !.score = BigAdd(@, Big(10)), !.is_won = TRUE]

\* a faulty stub that counts every move twice
GameState_make_move_counts_twice(gs) ==
    [gs EXCEPT !.moves = @ + 2, !.score = BigAdd(@, Big(10))]

\* GameState::make_move: the stub only counts
GameState_make_move(gs) == [gs EXCEPT !.moves = @ + 1, !.score = BigAdd(@, Big(10))]

\* a faulty win check that reports every position as won
is_won_always(gs) == TRUE

\* GameState::is_won
is_won(gs) == gs.is_won

-----------------------------------------------------------------------------
(* solitaire: account validation (the Accounts structs) *)

\* init game at ["game", authority, game_id]; init escrow_token_account at
\* ["escrow", game_id]; mut user_token_account
InitializeGame(w, caller, game_id, m) ==
    IF w.game[<<caller, game_id>>] # NoAccount THEN Fail(w, "AccountAlreadyInUse")
    ELSE LET w1 == [w EXCEPT !.game[<<caller, game_id>>] = ZeroedGameAccount]
         IN  IF w1.token[Escrow(game_id, m)] # NoToken
             THEN Fail(w1, "AccountAlreadyInUse")
             ELSE Done([w1 EXCEPT !.token[Escrow(game_id, m)] = Zero], <<>>, Zero)

\* mut game; authority: Signer
MakeMove(w, caller, gk) ==
    IF w.game[gk] = NoAccount THEN Fail(w, "AccountNotInitialized")
    ELSE Done(w, <<>>, Zero)

\* mut game, mut escrow_token_account, mut user_token_account
CompleteGame(w, caller, gk, user) ==
    IF w.game[gk] = NoAccount THEN Fail(w, "AccountNotInitialized")
    ELSE IF w.token[user] = NoToken THEN Fail(w, "AccountNotInitialized")
    ELSE Done(w, <<>>, Zero)

\* mut game, mut escrow_token_account, mut user_token_account
WithdrawStake(w, caller, gk, user) ==
    IF w.game[gk] = NoAccount THEN Fail(w, "AccountNotInitialized")
    ELSE IF w.token[user] = NoToken THEN Fail(w, "AccountNotInitialized")
    ELSE Done(w, <<>>, Zero)

-----------------------------------------------------------------------------
(* solitaire: handlers *)

initialize_game(w, clock, caller, game_id, stake_amount, reward_mint) ==
    LET gk == <<caller, game_id>> IN
    IF ~BigLess(Zero, stake_amount) THEN Fail(w, "InvalidStakeAmount")
    ELSE IF ~(GameIdLen(game_id) <= 32) THEN Fail(w, "GameIdTooLong")
    ELSE LET g == [ w.game[gk] EXCEPT
                      !.authority = caller, !.game_id = game_id,
                      !.stake_amount = stake_amount, !.reward_mint = reward_mint,
                      !.status = "Active", !.moves = 0, !.score = Zero,
                      !.is_won = FALSE, !.created_at = clock, !.updated_at = clock,
                      !.game_state = NewGameState(caller, clock) ]
             w1 == [w EXCEPT !.game[gk] = g]
             t == TokenTransfer(w1.token, Wallet(caller, reward_mint),
                                Escrow(game_id, reward_mint), stake_amount)
         IN  IF t.err # "Ok" THEN Fail(w1, t.err)
             ELSE Done([w1 EXCEPT !.token = t.ledger],
                       << [type |-> "GameStarted", game_id |-> game_id,
                           player |-> caller, stake_amount |-> stake_amount,
                           timestamp |-> clock] >>, Zero)

\* a faulty make_move that does not restart the inactivity period
make_move_keeps_updated_at(w, clock, caller, gk) ==
    LET g == w.game[gk] IN
    IF g.status # "Active" THEN Fail(w, "GameNotActive")
    ELSE IF caller # g.authority THEN Fail(w, "Unauthorized")
    ELSE LET g1 == [ g EXCEPT !.game_state = GameState_make_move(@),
                              !.moves = @ + 1 ]
         IN  Done([w EXCEPT !.game[gk] = g1],
                  << [type |-> "MoveMade", game_id |-> g1.game_id,
                      player |-> g1.authority, moves |-> g1.moves,
                      timestamp |-> g1.updated_at] >>, Zero)

make_move(w, clock, caller, gk) ==
    LET g == w.game[gk] IN
    IF g.status # "Active" THEN Fail(w, "GameNotActive")
    ELSE IF caller # g.authority THEN Fail(w, "Unauthorized")
    ELSE LET g1 == [ g EXCEPT !.game_state = GameState_make_move(@),
                              !.moves = @ + 1, !.updated_at = clock ]
             won == is_won(g1.game_state)
             g2 == IF won
                   THEN [g1 EXCEPT !.is_won = TRUE, !.status = "Completed",
                                   !.updated_at = clock]
                   ELSE g1
             completed == IF won
                          THEN << [type |-> "GameCompleted", game_id |-> g2.game_id,
                                   player |-> g2.authority, won |-> TRUE,
                                   score |-> g2.score, moves |-> g2.moves,
                                   timestamp |-> g2.updated_at] >>
                          ELSE <<>>
         IN  Done([w EXCEPT !.game[gk] = g2],
                  completed \o << [type |-> "MoveMade", game_id |-> g2.game_id,
                                   player |-> g2.authority, moves |-> g2.moves,
                                   timestamp |-> g2.updated_at] >>, Zero)

\* a faulty complete_game that lacks the status check
complete_game_any_status(w, clock, caller, gk, user, final_score) ==
    LET g == w.game[gk] IN
    IF caller # g.authority THEN Fail(w, "Unauthorized")
    ELSE LET g1 == [ g EXCEPT !.status = "Completed", !.score = final_score,
                              !.is_won = is_won(g.game_state), !.updated_at = clock ]
             w1 == [w EXCEPT !.game[gk] = g1]
             reward == IF g1.is_won THEN u64_mul(g1.stake_amount, Big(2))
                       ELSE U64(BigDivInt(g1.stake_amount, 2))
             t == TokenTransfer(w1.token, Escrow(g1.game_id, g1.reward_mint),
                                user, reward.value)
         IN  IF reward.overflow /\ w.overflow_checks THEN Fail(w1, "Panic")
             ELSE IF t.err # "Ok" THEN Fail(w1, t.err)
             ELSE Done([w1 EXCEPT !.token = t.ledger],
                       << [type |-> "GameCompleted", game_id |-> g1.game_id,
                           player |-> g1.authority, won |-> g1.is_won,
                           score |-> final_score, moves |-> g1.moves,
                           timestamp |-> g1.updated_at] >>, reward.value)

\* a faulty complete_game that returns the whole stake for a game not won
complete_game_pays_stake(w, clock, caller, gk, user, final_score) ==
    LET g == w.game[gk] IN
    IF g.status # "Active" THEN Fail(w, "GameNotActive")
    ELSE IF caller # g.authority THEN Fail(w, "Unauthorized")
    ELSE LET g1 == [ g EXCEPT !.status = "Completed", !.score = final_score,
                              !.is_won = is_won(g.game_state), !.updated_at = clock ]
             w1 == [w EXCEPT !.game[gk] = g1]
             reward == IF g1.is_won THEN u64_mul(g1.stake_amount, Big(2))
                       ELSE U64(g1.stake_amount)
         IN  IF reward.overflow /\ w.overflow_checks THEN Fail(w1, "Panic")
             ELSE LET t == TokenTransfer(w1.token, Escrow(g1.game_id, g1.reward_mint),
                                         user, reward.value)
                  IN  IF t.err # "Ok" THEN Fail(w1, t.err)
                      ELSE Done([w1 EXCEPT !.token = t.ledger],
                                << [type |-> "GameCompleted", game_id |-> g1.game_id,
                                    player |-> g1.authority, won |-> g1.is_won,
                                    score |-> final_score, moves |-> g1.moves,
                                    timestamp |-> g1.updated_at] >>, reward.value)

complete_game(w, clock, caller, gk, user, final_score) ==
    LET g == w.game[gk] IN
    IF g.status # "Active" THEN Fail(w, "GameNotActive")
    ELSE IF caller # g.authority THEN Fail(w, "Unauthorized")
    ELSE LET g1 == [ g EXCEPT !.status = "Completed", !.score = final_score,
                              !.is_won = is_won(g.game_state), !.updated_at = clock ]
             w1 == [w EXCEPT !.game[gk] = g1]
             reward == IF g1.is_won THEN u64_mul(g1.stake_amount, Big(2))
                       ELSE U64(BigDivInt(g1.stake_amount, 2))
         IN  IF reward.overflow /\ w.overflow_checks THEN Fail(w1, "Panic")
             ELSE LET t == TokenTransfer(w1.token, Escrow(g1.game_id, g1.reward_mint),
                                         user, reward.value)
                  IN  IF t.err # "Ok" THEN Fail(w1, t.err)
                      ELSE Done([w1 EXCEPT !.token = t.ledger],
                                << [type |-> "GameCompleted", game_id |-> g1.game_id,
                                    player |-> g1.authority, won |-> g1.is_won,
                                    score |-> final_score, moves |-> g1.moves,
                                    timestamp |-> g1.updated_at] >>, reward.value)

\* a faulty withdraw_stake that drops the result of the transfer
withdraw_stake_transfer_unchecked(w, clock, caller, gk, user) ==
    LET g == w.game[gk] IN
    IF g.status # "Active" THEN Fail(w, "GameNotActive")
    ELSE IF caller # g.authority THEN Fail(w, "Unauthorized")
    ELSE IF ~(clock - g.updated_at >= 86400) THEN Fail(w, "WithdrawalTooEarly")
    ELSE LET g1 == [g EXCEPT !.status = "Abandoned", !.updated_at = clock]
             w1 == [w EXCEPT !.game[gk] = g1]
             penalty == BigDivInt(g1.stake_amount, 10)
             refund_amount == BigSub(g1.stake_amount, penalty)
             t == TokenTransfer(w1.token, Escrow(g1.game_id, g1.reward_mint),
                                user, refund_amount)
         IN  Done([w1 EXCEPT !.token = t.ledger],
                  << [type |-> "StakeWithdrawn", game_id |-> g1.game_id,
                      player |-> g1.authority, amount |-> refund_amount,
                      penalty |-> penalty, timestamp |-> g1.updated_at] >>,
                  refund_amount)

\* a faulty withdraw_stake that opens one second early
withdraw_stake_a_second_early(w, clock, caller, gk, user) ==
    LET g == w.game[gk] IN
    IF g.status # "Active" THEN Fail(w, "GameNotActive")
    ELSE IF caller # g.authority THEN Fail(w, "Unauthorized")
    ELSE LET time_since_update == clock - g.updated_at IN
         IF ~(time_since_update >= 86399) THEN Fail(w, "WithdrawalTooEarly")
         ELSE LET g1 == [g EXCEPT !.status = "Abandoned", !.updated_at = clock]
                  w1 == [w EXCEPT !.game[gk] = g1]
                  penalty == BigDivInt(g1.stake_amount, 10)
                  refund_amount == BigSub(g1.stake_amount, penalty)
                  t == TokenTransfer(w1.token, Escrow(g1.game_id, g1.reward_mint),
                                     user, refund_amount)
              IN  IF t.err # "Ok" THEN Fail(w1, t.err)
                  ELSE Done([w1 EXCEPT !.token = t.ledger],
                            << [type |-> "StakeWithdrawn", game_id |-> g1.game_id,
                                player |-> g1.authority, amount |-> refund_amount,
                                penalty |-> penalty, timestamp |-> g1.updated_at] >>,
                            refund_amount)

\* a faulty withdraw_stake that refunds without closing the game
withdraw_stake_stays_active(w, clock, caller, gk, user) ==
    LET g == w.game[gk] IN
    IF g.status # "Active" THEN Fail(w, "GameNotActive")
    ELSE IF caller # g.authority THEN Fail(w, "Unauthorized")
    ELSE LET time_since_update == clock - g.updated_at IN
         IF ~(time_since_update >= 86400) THEN Fail(w, "WithdrawalTooEarly")
         ELSE LET g1 == [g EXCEPT !.updated_at = clock]
                  w1 == [w EXCEPT !.game[gk] = g1]
                  penalty == BigDivInt(g1.stake_amount, 10)
                  refund_amount == BigSub(g1.stake_amount, penalty)
                  t == TokenTransfer(w1.token, Escrow(g1.game_id, g1.reward_mint),
                                     user, refund_amount)
              IN  IF t.err # "Ok" THEN Fail(w1, t.err)
                  ELSE Done([w1 EXCEPT !.token = t.ledger],
                            << [type |-> "StakeWithdrawn", game_id |-> g1.game_id,
                                player |-> g1.authority, amount |-> refund_amount,
                                penalty |-> penalty, timestamp |-> g1.updated_at] >>,
                            refund_amount)

withdraw_stake(w, clock, caller, gk, user) ==
    LET g == w.game[gk] IN
    IF g.status # "Active" THEN Fail(w, "GameNotActive")
    ELSE IF caller # g.authority THEN Fail(w, "Unauthorized")
    ELSE LET time_since_update == clock - g.updated_at IN
         IF ~(time_since_update >= 86400) THEN Fail(w, "WithdrawalTooEarly")
         ELSE LET g1 == [g EXCEPT !.status = "Abandoned", !.updated_at = clock]
                  w1 == [w EXCEPT !.game[gk] = g1]
                  penalty == BigDivInt(g1.stake_amount, 10)
                  refund_amount == BigSub(g1.stake_amount, penalty)
                  t == TokenTransfer(w1.token, Escrow(g1.game_id, g1.reward_mint),
                                     user, refund_amount)
              IN  IF t.err # "Ok" THEN Fail(w1, t.err)
                  ELSE Done([w1 EXCEPT !.token = t.ledger],
                            << [type |-> "StakeWithdrawn", game_id |-> g1.game_id,
                                player |-> g1.authority, amount |-> refund_amount,
                                penalty |-> penalty, timestamp |-> g1.updated_at] >>,
                            refund_amount)

-----------------------------------------------------------------------------
(* The runtime: an instruction's writes and events are kept only on Ok *)

Commit(op, r) ==
    LET w == IF r.err = "Ok" THEN r.w ELSE World
        evs == IF r.err = "Ok" THEN r.events ELSE <<>>
    IN  /\ token' = w.token
        /\ mint_config' = w.mint_config
        /\ stake_account' = w.stake_account
        /\ memecoin_config' = w.memecoin_config
        /\ reward_account' = w.reward_account
        /\ airdrop_account' = w.airdrop_account
        /\ game' = w.game
        /\ log_len' = log_len + Len(evs)
        /\ last' = [op |-> op, err |-> r.err, events |-> evs,
                    paid |-> IF r.err = "Ok" THEN r.paid ELSE Zero]
        /\ UNCHANGED <<program, now, overflow_checks, ticks, derived_bump>>

-----------------------------------------------------------------------------
(* An instruction: the account validation of its Accounts struct, then the *)
(* handler on the accounts as validation left them                         *)

ix_initialize_mint(w, clock, caller, m, token_name, token_symbol, decimals) ==
    LET v == InitializeMint(w, caller, m)
    IN  IF v.err # "Ok" THEN v
        ELSE initialize_mint(v.w, clock, caller, m, token_name, token_symbol, decimals)

ix_mint_tokens(w, clock, caller, m, to, amount) ==
    LET v == MintTokens(w, caller, m, to)
    IN  IF v.err # "Ok" THEN v ELSE mint_tokens(v.w, clock, caller, m, to, amount)

ix_stake_tokens(w, clock, caller, m, amount, lock_period) ==
    LET v == StakeTokens(w, caller, m)
    IN  IF v.err # "Ok" THEN v ELSE stake_tokens(v.w, clock, caller, m, amount, lock_period)

ix_unstake_tokens(w, clock, caller, sid) ==
    LET v == UnstakeTokens(w, caller, sid)
    IN  IF v.err # "Ok" THEN v ELSE unstake_tokens(v.w, clock, caller, sid)

ix_claim_rewards(w, clock, caller, sid) ==
    LET v == ClaimRewards(w, caller, sid)
    IN  IF v.err # "Ok" THEN v ELSE claim_rewards(v.w, clock, caller, sid)

ix_initialize_memecoin(w, clock, caller, m, token_name, token_symbol, decimals, total_supply) ==
    LET v == InitializeMemecoin(w, caller, m)
    IN  IF v.err # "Ok" THEN v
        ELSE initialize_memecoin(v.w, clock, caller, m, token_name, token_symbol,
                                 decimals, total_supply)

ix_distribute_initial_supply(w, clock, caller, m, community) ==
    LET v == DistributeInitialSupply(w, caller, m, community)
    IN  IF v.err # "Ok" THEN v
        ELSE distribute_initial_supply(v.w, clock, caller, m, community)

ix_distribute_game_rewards(w, clock, caller, m, player, amount, game_id) ==
    LET v == DistributeGameRewards(w, caller, m, player, game_id)
    IN  IF v.err # "Ok" THEN v
        ELSE distribute_game_rewards(v.w, clock, caller, m, player, amount, game_id)

ix_claim_airdrop(w, clock, caller, recipient, m) ==
    LET v == ClaimAirdrop(w, caller, recipient, m)
    IN  IF v.err # "Ok" THEN v ELSE claim_airdrop(v.w, clock, caller, recipient, m)

ix_setup_airdrop_account(w, clock, caller, m, amount, claimable_at) ==
    LET v == SetupAirdropAccount(w, caller, m)
    IN  IF v.err # "Ok" THEN v
        ELSE setup_airdrop_account(v.w, clock, caller, m, amount, claimable_at)

ix_initialize_game(w, clock, caller, game_id, stake_amount, reward_mint) ==
    LET v == InitializeGame(w, caller, game_id, reward_mint)
    IN  IF v.err # "Ok" THEN v
        ELSE initialize_game(v.w, clock, caller, game_id, stake_amount, reward_mint)

ix_make_move(w, clock, caller, gk) ==
    LET v == MakeMove(w, caller, gk)
    IN  IF v.err # "Ok" THEN v ELSE make_move(v.w, clock, caller, gk)

ix_complete_game(w, clock, caller, gk, user, final_score) ==
    LET v == CompleteGame(w, caller, gk, user)
    IN  IF v.err # "Ok" THEN v ELSE complete_game(v.w, clock, caller, gk, user, final_score)

ix_withdraw_stake(w, clock, caller, gk, user) ==
    LET v == WithdrawStake(w, caller, gk, user)
    IN  IF v.err # "Ok" THEN v ELSE withdraw_stake(v.w, clock, caller, gk, user)

\* the token accounts a caller may name as the user's account
UserWallets(caller) == {Wallet(caller, m) : m \in GameMints \cup TokenMints}

-----------------------------------------------------------------------------
(* gaming-token: instructions *)

IxInitializeMint ==
    \E caller \in Deployers, m \in TokenMints, a \in MintArgs :
        /\ program = "gaming_token"
        /\ Commit("initialize_mint",
                  ix_initialize_mint(World, now, caller, m, a[1], a[2], a[3]))
        /\ UNCHANGED <<mints_done, rewards_claimed>>

\* the token accounts a mint_tokens is tried on: the caller's own, the two vaults
\* and, for the amount of 1,000,000, another user's
MintTargets(caller, m, amount) ==
    {Wallet(caller, m), StakeVault(m), RewardVault(m)}
      \cup (IF amount = Big(1000000) THEN {Wallet(k, m) : k \in Keys} ELSE {})

IxMintTokens ==
    \E caller \in Keys, m \in TokenMints, amount \in MintAmounts :
      \E to \in MintTargets(caller, m, amount) :
        LET r == ix_mint_tokens(World, now, caller, m, to, amount)
        IN  /\ program = "gaming_token"
            /\ mints_done < MaxMints
            /\ Commit("mint_tokens", r)
            /\ mints_done' = IF r.err = "Ok" THEN mints_done + 1 ELSE mints_done
            /\ UNCHANGED rewards_claimed

IxStakeTokens ==
    \E caller \in Keys, m \in TokenMints, amount \in StakeAmounts, lp \in LockPeriods :
        /\ program = "gaming_token"
        /\ Commit("stake_tokens", ix_stake_tokens(World, now, caller, m, amount, lp))
        /\ UNCHANGED <<mints_done, rewards_claimed>>

IxUnstakeTokens ==
    \E caller \in Keys, sid \in StakeIds :
        /\ program = "gaming_token"
        /\ Commit("unstake_tokens", ix_unstake_tokens(World, now, caller, sid))
        /\ UNCHANGED <<mints_done, rewards_claimed>>

IxClaimRewards ==
    \E caller \in Keys, sid \in StakeIds :
        /\ program = "gaming_token"
        /\ Commit("claim_rewards", ix_claim_rewards(World, now, caller, sid))
        /\ rewards_claimed' = [rewards_claimed EXCEPT ![sid] = BigAdd(@, last'.paid)]
        /\ UNCHANGED mints_done

-----------------------------------------------------------------------------
(* memecoin: instructions *)

IxInitializeMemecoin ==
    \E caller \in Deployers, m \in MemeMints, a \in MintArgs, total_supply \in SupplyIn :
        /\ program = "memecoin"
        /\ Commit("initialize_memecoin",
                  ix_initialize_memecoin(World, now, caller, m, a[1], a[2], a[3],
                                         total_supply))
        /\ UNCHANGED <<mints_done, rewards_claimed>>

IxDistributeInitialSupply ==
    \E caller \in Keys, m \in MemeMints :
      \E community \in {Pool("community", m), Pool("airdrop_pool", m)} :
        /\ program = "memecoin"
        /\ Commit("distribute_initial_supply",
                  ix_distribute_initial_supply(World, now, caller, m, community))
        /\ UNCHANGED <<mints_done, rewards_claimed>>

IxDistributeGameRewards ==
    \E caller \in Keys, m \in MemeMints, player \in Keys, amount \in RewardAmounts,
       game_id \in GameIds :
        /\ program = "memecoin"
        /\ Commit("distribute_game_rewards",
                  ix_distribute_game_rewards(World, now, caller, m, player, amount,
                                             game_id))
        /\ UNCHANGED <<mints_done, rewards_claimed>>

IxClaimAirdrop ==
    \E caller \in Keys, recipient \in Keys, m \in MemeMints :
        /\ program = "memecoin"
        /\ Commit("claim_airdrop", ix_claim_airdrop(World, now, caller, recipient, m))
        /\ UNCHANGED <<mints_done, rewards_claimed>>

IxSetupAirdropAccount ==
    \E caller \in Keys, m \in MemeMints, amount \in AirdropAmounts, d \in ClaimDelays :
        /\ program = "memecoin"
        /\ Commit("setup_airdrop_account",
                  ix_setup_airdrop_account(World, now, caller, m, amount, now + d))
        /\ UNCHANGED <<mints_done, rewards_claimed>>

-----------------------------------------------------------------------------
(* solitaire: instructions *)

IxInitializeGame ==
    \E caller \in Keys, game_id \in GameIds, stake_amount \in GameStakes,
       reward_mint \in GameMints :
        /\ program = "solitaire"
        /\ Commit("initialize_game",
                  ix_initialize_game(World, now, caller, game_id, stake_amount,
                                     reward_mint))
        /\ UNCHANGED <<mints_done, rewards_claimed>>

IxMakeMove ==
    \E caller \in Keys, gk \in GameKeys :
        /\ program = "solitaire"
        /\ game[gk] # NoAccount => game[gk].moves < MaxMoves
        /\ Commit("make_move", ix_make_move(World, now, caller, gk))
        /\ UNCHANGED <<mints_done, rewards_claimed>>

IxCompleteGame ==
    \E caller \in Keys, gk \in GameKeys, final_score \in FinalScores :
      \E user \in UserWallets(caller) :
        /\ program = "solitaire"
        /\ Commit("complete_game",
                  ix_complete_game(World, now, caller, gk, user, final_score))
        /\ UNCHANGED <<mints_done, rewards_claimed>>

IxWithdrawStake ==
    \E caller \in Keys, gk \in GameKeys :
      \E user \in UserWallets(caller) :
        /\ program = "solitaire"
        /\ Commit("withdraw_stake", ix_withdraw_stake(World, now, caller, gk, user))
        /\ UNCHANGED <<mints_done, rewards_claimed>>

-----------------------------------------------------------------------------
(* The host clock advances between instructions *)

Tick ==
    \E d \in ClockSteps(program, ticks) :
        /\ ticks < MaxTicks
        /\ now' = now + d
        /\ ticks' = ticks + 1
        /\ UNCHANGED <<program, overflow_checks, token, mint_config, stake_account,
                       memecoin_config, reward_account, airdrop_account, game,
                       log_len, mints_done, rewards_claimed, derived_bump,
                       last>>

NoInstruction ==
    [op |-> "none", err |-> "Ok", events |-> <<>>, paid |-> Zero]

\* nothing deployed yet; every key holds a wallet of each mint
Init ==
    /\ program \in Programs
    /\ now = Epoch
    /\ overflow_checks \in BOOLEAN
    /\ token = [a \in TokenAccounts |->
                  IF a \in Wallets
                  THEN (IF MintOf(a) \in GameMints THEN InitialChips ELSE Zero)
                  ELSE NoToken]
    /\ mint_config = [m \in TokenMints |-> NoAccount]
    /\ stake_account = [sid \in StakeIds |-> NoAccount]
    /\ memecoin_config = [m \in MemeMints |-> NoAccount]
    /\ reward_account = [rid \in RewardIds |-> NoAccount]
    /\ airdrop_account = [k \in Keys |-> NoAccount]
    /\ game = [gk \in GameKeys |-> NoAccount]
    /\ log_len = 0
    /\ mints_done = 0
    /\ rewards_claimed = [sid \in StakeIds |-> Zero]
    /\ ticks = 0
    /\ derived_bump \in [PlayableIds -> BumpValues]
    /\ program # "solitaire" => derived_bump = [gid \in PlayableIds |-> 255]
    /\ last = NoInstruction

InitToken == Init /\ program = "gaming_token"
InitMeme == Init /\ program = "memecoin"
InitSol == Init /\ program = "solitaire"

NextToken ==
    \/ IxInitializeMint
    \/ IxMintTokens
    \/ IxStakeTokens
    \/ IxUnstakeTokens
    \/ IxClaimRewards
    \/ Tick

NextMeme ==
    \/ IxInitializeMemecoin
    \/ IxDistributeInitialSupply
    \/ IxDistributeGameRewards
    \/ IxClaimAirdrop
    \/ IxSetupAirdropAccount
    \/ Tick

NextSol ==
    \/ IxInitializeGame
    \/ IxMakeMove
    \/ IxCompleteGame
    \/ IxWithdrawStake
    \/ Tick

Next ==
    \/ IxInitializeMint
    \/ IxMintTokens
    \/ IxStakeTokens
    \/ IxUnstakeTokens
    \/ IxClaimRewards
    \/ IxInitializeMemecoin
    \/ IxDistributeInitialSupply
    \/ IxDistributeGameRewards
    \/ IxClaimAirdrop
    \/ IxSetupAirdropAccount
    \/ IxInitializeGame
    \/ IxMakeMove
    \/ IxCompleteGame
    \/ IxWithdrawStake
    \/ Tick

Spec == Init /\ [][Next]_vars
SpecToken == InitToken /\ [][NextToken]_vars
SpecMeme == InitMeme /\ [][NextMeme]_vars
SpecSol == InitSol /\ [][NextSol]_vars

-----------------------------------------------------------------------------
(* Properties *)

\* a step that executes an instruction (the clock steps count ticks)
InstructionStep == ticks' = ticks

\* the balance of a token account, 0 when it does not exist
Balance(ledger, a) == IF ledger[a] = NoToken THEN Zero ELSE ledger[a]

Terminal(gk) == game[gk] # NoAccount /\ game[gk].status # "Active"

\* C1 (first part): on a game that is Completed or Abandoned, make_move,
\* complete_game and withdraw_stake fail with GameNotActive for every caller, every
\* user account and every clock value, and the handler has written nothing.
C1_Rejected ==
    \A gk \in GameKeys : Terminal(gk) =>
        \A caller \in Keys, clock \in {now, now + 86400} :
            /\ ix_make_move(World, clock, caller, gk) = Fail(World, "GameNotActive")
            /\ \A user \in UserWallets(caller) :
                /\ ix_withdraw_stake(World, clock, caller, gk, user)
                     = Fail(World, "GameNotActive")
                /\ \A final_score \in FinalScores :
                     ix_complete_game(World, clock, caller, gk, user, final_score)
                       = Fail(World, "GameNotActive")

\* C1 (second part): no step changes a field of a terminal game or the balance
\* of its escrow.
C1_Frozen ==
    \A gk \in GameKeys : Terminal(gk) =>
        /\ game'[gk] = game[gk]
        /\ token'[Escrow(game[gk].game_id, game[gk].reward_mint)]
             = token[Escrow(game[gk].game_id, game[gk].reward_mint)]

\* C1: once a Solitaire game is Completed or Abandoned, every later make_move,
\* complete_game and withdraw_stake on it fails with GameNotActive and the
\* GameAccount and the escrow balance never change again.
C1_TerminalGames == []C1_Rejected /\ [][C1_Frozen]_vars

\* C1 witness: complete_game has just been rejected on an abandoned game whose
\* escrow still holds the penalty.
C1_Witness ==
    /\ last.op = "complete_game" /\ last.err = "GameNotActive"
    /\ \E gk \in GameKeys :
        /\ game[gk] # NoAccount /\ game[gk].status = "Abandoned"
        /\ token[Escrow(game[gk].game_id, game[gk].reward_mint)] = Big(10)

\* C2 as stated: every successful instruction appends exactly one event and every
\* failed instruction appends none.
C2_OneEventPerSuccess ==
    [][InstructionStep =>
         IF last'.err = "Ok" THEN log_len' = log_len + 1 ELSE log_len' = log_len]_vars

\* C2 amended: every successful instruction appends exactly one event, except a
\* successful claim_rewards whose reward is 0, which appends none; every failed
\* instruction appends none.  In particular every successful make_move appends
\* exactly one event.
C2_OneEventUnlessZeroReward ==
    [][InstructionStep =>
         IF last'.err # "Ok" THEN log_len' = log_len /\ last'.events = <<>>
         ELSE IF last'.op = "claim_rewards" /\ last'.paid = Zero
              THEN log_len' = log_len /\ last'.events = <<>>
              ELSE log_len' = log_len + 1 /\ Len(last'.events) = 1]_vars

\* C2 witness: a claim_rewards has succeeded on an active stake without paying and
\* without an event, after the events of the earlier instructions.
C2_Witness ==
    /\ last.op = "claim_rewards" /\ last.err = "Ok" /\ last.events = <<>>
    /\ log_len >= 3
    /\ \E sid \in StakeIds : stake_account[sid] # NoAccount /\ stake_account[sid].is_active

\* floor(amount * 5 * elapsed / (100 * 31536000)) in unbounded arithmetic
TrueReward(amount, elapsed) ==
    BigDivAll(BigMul(BigMul(amount, Big(5)), Big(elapsed)), RewardDivisor)

\* the stake a successful unstake_tokens step has closed
Closes(sid) ==
    /\ InstructionStep
    /\ last'.op = "unstake_tokens" /\ last'.err = "Ok"
    /\ stake_account[sid] # NoAccount /\ stake_account[sid].is_active
    /\ ~stake_account'[sid].is_active

\* C3: every successful unstake_tokens pays
\* amount + floor(amount * 5 * (now - created_at) / (100 * 31536000)).
C3_UnstakePaysFromCreation ==
    [][\A sid \in StakeIds : Closes(sid) =>
          last'.paid = BigAdd(stake_account[sid].amount,
                              TrueReward(stake_account[sid].amount,
                                         now - stake_account[sid].created_at))]_vars

\* C3 scenario: a stake of 1,000,000 whose owner claimed 25,000 after half a year
\* has been unstaked after the year for 1,050,000.
C3_Witness ==
    /\ last.op = "unstake_tokens" /\ last.err = "Ok" /\ last.paid = Big(1050000)
    /\ \E sid \in StakeIds :
        /\ stake_account[sid] # NoAccount /\ ~stake_account[sid].is_active
        /\ stake_account[sid].amount = Big(1000000)
        /\ stake_account[sid].last_reward_claim = stake_account[sid].created_at + HalfYear
        /\ token[Wallet(sid[1], sid[2])] = Big(1075000)

ActiveGame(gk) == game[gk] # NoAccount /\ game[gk].status = "Active"

\* C4 (handlers): complete_game and withdraw_stake called by the authority of an
\* Active game with a user account of another mint, so that the escrow transfer
\* fails, return the failure although they have already written the status.
C4_TransferFailureAborts ==
    \A gk \in GameKeys : ActiveGame(gk) =>
        \A user \in UserWallets(game[gk].authority), final_score \in FinalScores :
            MintOf(user) # game[gk].reward_mint =>
                LET c == ix_complete_game(World, now, game[gk].authority, gk, user,
                                          final_score)
                    d == ix_withdraw_stake(World, game[gk].updated_at + 86400,
                                           game[gk].authority, gk, user)
                IN  /\ c.err # "Ok" /\ c.w.game[gk].status = "Completed"
                    /\ d.err # "Ok" /\ d.w.game[gk].status = "Abandoned"

\* C4 (runtime): a failed instruction changes no record, no balance and no log.
C4_FailureChangesNothing ==
    (InstructionStep /\ last'.err # "Ok") =>
        UNCHANGED <<token, mint_config, stake_account, memecoin_config, reward_account,
                    airdrop_account, game, log_len>>

\* C4: an instruction that fails at any step leaves every record and every token
\* balance as before it ran, also when complete_game or withdraw_stake fail in the
\* escrow transfer after writing status, score, is_won and updated_at.
C4_Atomic == []C4_TransferFailureAborts /\ [][C4_FailureChangesNothing]_vars

\* C4 witness: withdraw_stake has failed in its transfer after the inactivity
\* period, and the game is still Active with its updated_at untouched.
C4_Witness ==
    /\ last.op = "withdraw_stake" /\ last.err = "TokenServiceFailure"
    /\ \E gk \in GameKeys :
        /\ ActiveGame(gk)
        /\ now - game[gk].updated_at >= 86400
        /\ token[Escrow(game[gk].game_id, game[gk].reward_mint)] = game[gk].stake_amount

\* C5: mint_tokens, claim_rewards, unstake_tokens, distribute_initial_supply,
\* distribute_game_rewards, claim_airdrop, and make_move, complete_game and
\* withdraw_stake on an Active game reject a caller other than the key recorded in
\* the record with Unauthorized.
C5_RejectsWithUnauthorized ==
    /\ \A m \in TokenMints : mint_config[m] # NoAccount =>
         \A caller \in Keys \ {mint_config[m].authority}, amount \in MintAmounts \ {Zero} :
            ix_mint_tokens(World, now, caller, m, Wallet(caller, m), amount).err
              = "Unauthorized"
    /\ \A sid \in StakeIds : (stake_account[sid] # NoAccount /\ stake_account[sid].is_active) =>
         \A caller \in Keys \ {stake_account[sid].owner} :
            /\ ix_claim_rewards(World, now, caller, sid).err = "Unauthorized"
            /\ ix_unstake_tokens(World, now, caller, sid).err = "Unauthorized"
    /\ \A m \in MemeMints : memecoin_config[m] # NoAccount =>
         \A caller \in Keys \ {memecoin_config[m].authority} :
            /\ ix_distribute_initial_supply(World, now, caller, m, Pool("community", m)).err
                 = "Unauthorized"
            /\ \A rid \in RewardIds, amount \in RewardAmounts \ {Zero} :
                 ( /\ reward_account[rid] = NoAccount
                   /\ GameIdLen(rid[2]) <= 32
                   /\ token[Pool("game_rewards", m)] # NoToken ) =>
                     ix_distribute_game_rewards(World, now, caller, m, rid[1], amount,
                                                rid[2]).err = "Unauthorized"
    /\ \A k \in Keys, m \in MemeMints :
         ( /\ airdrop_account[k] # NoAccount
           /\ ~airdrop_account[k].claimed
           /\ token[Pool("airdrop_pool", m)] # NoToken ) =>
             \A caller \in Keys \ {airdrop_account[k].recipient} :
                ix_claim_airdrop(World, now, caller, k, m).err = "Unauthorized"
    /\ \A gk \in GameKeys : ActiveGame(gk) =>
         \A caller \in Keys \ {game[gk].authority} : \A user \in UserWallets(caller) :
            /\ ix_make_move(World, now, caller, gk).err = "Unauthorized"
            /\ ix_withdraw_stake(World, now, caller, gk, user).err = "Unauthorized"
            /\ \A final_score \in FinalScores :
                 ix_complete_game(World, now, caller, gk, user, final_score).err
                   = "Unauthorized"

\* C5 observed: a caller other than the mint authority has been turned away from
\* mint_tokens by the has_one constraint, before the handler ran.
C5_Witness ==
    /\ last.op = "mint_tokens" /\ last.err = "ConstraintHasOne"
    /\ \E m \in TokenMints : mint_config[m] # NoAccount

Claimed(k) == airdrop_account[k] # NoAccount /\ airdrop_account[k].claimed

\* C6 (invariant): claimed = true implies claimed_at >= claimable_at.
C6_ClaimedAt ==
    \A k \in Keys : Claimed(k) =>
        /\ airdrop_account[k].claimed_at # <<>>
        /\ airdrop_account[k].claimed_at[1] >= airdrop_account[k].claimable_at

\* C6 (second call): on a claimed airdrop every claim_airdrop fails with
\* AlreadyClaimed and transfers nothing.
C6_SecondClaimRejected ==
    \A k \in Keys : Claimed(k) =>
        \A caller \in Keys, m \in MemeMints, clock \in {now, now + 3600} :
            ix_claim_airdrop(World, clock, caller, k, m) = Fail(World, "AlreadyClaimed")

\* C6 (once): a successful claim_airdrop turns exactly one unclaimed airdrop into
\* a claimed one and pays its amount out of the airdrop pool; a claimed airdrop
\* never changes again.
C6_Once ==
    /\ \A k \in Keys : Claimed(k) => airdrop_account'[k] = airdrop_account[k]
    /\ (InstructionStep /\ last'.op = "claim_airdrop" /\ last'.err = "Ok") =>
         \E k \in Keys, m \in MemeMints :
            /\ airdrop_account[k] # NoAccount
            /\ ~airdrop_account[k].claimed /\ airdrop_account'[k].claimed
            /\ \A j \in Keys \ {k} : airdrop_account'[j] = airdrop_account[j]
            /\ last'.paid = airdrop_account[k].amount
            /\ token'[Pool("airdrop_pool", m)]
                 = BigSub(token[Pool("airdrop_pool", m)], airdrop_account[k].amount)

\* C6: for every recipient at most one claim_airdrop ever succeeds, a second call
\* fails with AlreadyClaimed and transfers nothing, and claimed implies
\* claimed_at >= claimable_at.
C6_AirdropClaimedOnce == []C6_ClaimedAt /\ []C6_SecondClaimRejected /\ [][C6_Once]_vars

\* C6 witness: a second claim_airdrop has been rejected with AlreadyClaimed after
\* the recipient received the 500 tokens.
C6_Witness ==
    /\ last.op = "claim_airdrop" /\ last.err = "AlreadyClaimed"
    /\ \E k \in Keys, m \in MemeMints : Claimed(k) /\ token[Wallet(k, m)] = Big(500)

\* C7 (later calls): once the RewardAccount of a (player, game_id) pair exists,
\* every distribute_game_rewards for that pair fails and transfers nothing.
C7_LaterCallsRejected ==
    \A rid \in RewardIds : reward_account[rid] # NoAccount =>
        \A caller \in Keys, m \in MemeMints, amount \in RewardAmounts :
            LET r == ix_distribute_game_rewards(World, now, caller, m, rid[1], amount,
                                                rid[2])
            IN  r.err # "Ok" /\ r.w.token = token

\* C7 (first success): a successful distribute_game_rewards creates the
\* RewardAccount of exactly one pair that had none and pays the amount it records;
\* an existing RewardAccount never changes.
C7_Once ==
    /\ \A rid \in RewardIds :
         reward_account[rid] # NoAccount => reward_account'[rid] = reward_account[rid]
    /\ (InstructionStep /\ last'.op = "distribute_game_rewards" /\ last'.err = "Ok") =>
         \E rid \in RewardIds :
            /\ reward_account[rid] = NoAccount /\ reward_account'[rid] # NoAccount
            /\ reward_account'[rid].player = rid[1]
            /\ reward_account'[rid].game_id = rid[2]
            /\ reward_account'[rid].amount = last'.paid
            /\ \A other \in RewardIds \ {rid} :
                 reward_account'[other] = reward_account[other]

\* C7: for every (player, game_id) pair at most one distribute_game_rewards
\* succeeds: the first success creates the RewardAccount and any later call for
\* the pair fails without transferring tokens.
C7_OneRewardPerGame == []C7_LaterCallsRejected /\ [][C7_Once]_vars

\* C7 witness: a second distribute_game_rewards for a rewarded pair has been
\* refused while the rewards pool could still have paid it.
C7_Witness ==
    /\ last.op = "distribute_game_rewards" /\ last.err = "AccountAlreadyInUse"
    /\ \E rid \in RewardIds, m \in MemeMints :
        /\ reward_account[rid] # NoAccount
        /\ reward_account[rid].amount = Big(1000)
        /\ token[Pool("game_rewards", m)] = Big(1002)
        /\ token[Wallet(rid[1], m)] = Big(1000)

Distributed(m) ==
    memecoin_config[m] # NoAccount /\ memecoin_config[m].circulating_supply # Zero

\* C8 (later calls): after a distribution every distribute_initial_supply fails,
\* with AlreadyDistributed when the authority calls, and mints nothing.
C8_LaterCallsRejected ==
    \A m \in MemeMints : Distributed(m) =>
        \A caller \in Keys, community \in {Pool("community", m), Pool("airdrop_pool", m)} :
            LET r == ix_distribute_initial_supply(World, now, caller, m, community)
            IN  /\ r.err # "Ok"
                /\ caller = memecoin_config[m].authority => r.err = "AlreadyDistributed"
                /\ \A a \in TokenAccounts : Balance(r.w.token, a) = Balance(token, a)

\* C8 (the distribution): a successful distribute_initial_supply finds
\* circulating_supply = 0, credits the game rewards, liquidity, team and community
\* accounts with their pool shares, sets circulating_supply = total_supply and
\* changes nothing else of the config; circulating_supply never changes afterwards.
C8_Distribution ==
    /\ \A m \in MemeMints : Distributed(m) =>
         memecoin_config'[m].circulating_supply = memecoin_config[m].circulating_supply
    /\ (InstructionStep /\ last'.op = "distribute_initial_supply" /\ last'.err = "Ok") =>
         \E m \in MemeMints :
            LET cfg == memecoin_config[m]
                Credited(a, share) == token'[a] = BigAdd(Balance(token, a), share)
            IN  /\ cfg # NoAccount
                /\ cfg.circulating_supply = Zero
                /\ memecoin_config'[m] =
                     [cfg EXCEPT !.circulating_supply = cfg.total_supply]
                /\ Credited(Pool("game_rewards", m), cfg.game_rewards_pool)
                /\ Credited(Pool("liquidity", m), cfg.liquidity_pool)
                /\ Credited(Pool("team", m), cfg.team_allocation)
                /\ \/ /\ Credited(Pool("community", m), cfg.community_allocation)
                      /\ token'[Pool("airdrop_pool", m)] = token[Pool("airdrop_pool", m)]
                   \/ /\ Credited(Pool("airdrop_pool", m), cfg.community_allocation)
                      /\ token'[Pool("community", m)] = token[Pool("community", m)]

\* C8: distribute_initial_supply succeeds at most once per MemecoinConfig: the
\* first success mints the four pool shares and sets circulating_supply =
\* total_supply; every later call fails with AlreadyDistributed and mints nothing.
C8_DistributedOnce == []C8_LaterCallsRejected /\ [][C8_Distribution]_vars

\* C8 witness: the authority's second distribute_initial_supply has been refused
\* with AlreadyDistributed after a supply of 5005 went out as 2002, 1501, 1001, 500.
C8_Witness ==
    /\ last.op = "distribute_initial_supply" /\ last.err = "AlreadyDistributed"
    /\ \E m \in MemeMints :
        /\ Distributed(m)
        /\ memecoin_config[m].circulating_supply = Big(5005)
        /\ token[Pool("game_rewards", m)] = Big(2002)
        /\ token[Pool("liquidity", m)] = Big(1501)
        /\ token[Pool("team", m)] = Big(1001)
        /\ token[Pool("community", m)] = Big(500)

ActiveStake(sid) == stake_account[sid] # NoAccount /\ stake_account[sid].is_active

\* amount * 5 * elapsed exceeds 2^64 - 1
RewardOverflows(amount, elapsed) ==
    BigLess(U64Max, BigMul(BigMul(amount, Big(5)), Big(elapsed)))

\* C9: u64 overflow traps: mint_tokens with total_supply + amount > 2^64 - 1, and
\* claim_rewards and unstake_tokens with amount * 5 * elapsed > 2^64 - 1, fail.
C9_OverflowTraps ==
    /\ \A m \in TokenMints : mint_config[m] # NoAccount =>
         \A amount \in MintAmounts :
           \A to \in {Wallet(mint_config[m].authority, m), StakeVault(m), RewardVault(m)} :
             ( /\ token[to] # NoToken
               /\ BigLess(U64Max, BigAdd(mint_config[m].total_supply, amount)) ) =>
                ix_mint_tokens(World, now, mint_config[m].authority, m, to, amount).err
                  # "Ok"
    /\ \A sid \in StakeIds : ActiveStake(sid) =>
         LET st == stake_account[sid]
         IN  /\ RewardOverflows(st.amount, now - st.last_reward_claim) =>
                  ix_claim_rewards(World, now, st.owner, sid).err # "Ok"
             /\ RewardOverflows(st.amount, now - st.created_at) =>
                  ix_unstake_tokens(World, now, st.owner, sid).err # "Ok"

\* C9 observed: in a build without overflow checks a stake of (2^64 + 4) / 5 has
\* been unstaked after a year for the principal alone, the reward having wrapped
\* to 0.
C9_Witness ==
    /\ ~overflow_checks
    /\ last.op = "unstake_tokens" /\ last.err = "Ok" /\ last.paid = WrappingStake
    /\ \E sid \in StakeIds :
        /\ stake_account[sid] # NoAccount
        /\ stake_account[sid].amount = WrappingStake
        /\ now - stake_account[sid].created_at = Year

\* C10 (mint_tokens): a successful mint_tokens adds exactly its amount to
\* total_supply, and the authority's mint_tokens with amount = 0 fails with
\* InvalidAmount.
C10_Mint ==
    \A m \in TokenMints : mint_config[m] # NoAccount =>
        \A amount \in MintAmounts :
          \A to \in {Wallet(mint_config[m].authority, m), StakeVault(m), RewardVault(m)} :
            LET r == ix_mint_tokens(World, now, mint_config[m].authority, m, to, amount)
            IN  /\ (amount = Zero /\ token[to] # NoToken) => r.err = "InvalidAmount"
                /\ r.err = "Ok" =>
                     r.w.mint_config[m].total_supply
                       = BigAdd(mint_config[m].total_supply, amount)

\* C10 (monotonic): no step decreases total_supply.
C10_Monotone ==
    \A m \in TokenMints : mint_config[m] # NoAccount =>
        BigLeq(mint_config[m].total_supply, mint_config'[m].total_supply)

\* C10: MintConfig.total_supply never decreases and is the sum of the amounts of
\* the successful mint_tokens calls; mint_tokens with amount = 0 fails with
\* InvalidAmount.
C10_SupplyIsSumOfMints == []C10_Mint /\ [][C10_Monotone]_vars

\* C10 observed: in a build without overflow checks total_supply has gone down
\* from 2^64 - 1 to 999,999 by a successful mint_tokens of 1,000,000.
C10_Witness ==
    /\ ~overflow_checks
    /\ last.op = "mint_tokens" /\ last.err = "Ok"
    /\ \E m \in TokenMints :
        /\ mint_config[m] # NoAccount
        /\ mint_config[m].total_supply = Big(999999)
        /\ token[Wallet(mint_config[m].authority, m)] = BigSub(U64Max, Big(1000000))

-----------------------------------------------------------------------------
(* Stakes *)

\* C11: every active StakeAccount has lock_until >= created_at and
\* created_at <= last_reward_claim <= now.
C11_StakeTimes ==
    \A sid \in StakeIds : ActiveStake(sid) =>
        LET st == stake_account[sid]
        IN  /\ ~st.lock_until.neg
            /\ BigLeq(Big(st.created_at), st.lock_until.mag)
            /\ st.created_at <= st.last_reward_claim
            /\ st.last_reward_claim <= now

\* C11 observed: an active stake locked for a year whose owner claimed rewards
\* half a year after creation, the clock having moved on since.
C11_Witness ==
    \E sid \in StakeIds :
        /\ ActiveStake(sid)
        /\ stake_account[sid].lock_until = I64(stake_account[sid].created_at + Year)
        /\ stake_account[sid].created_at < stake_account[sid].last_reward_claim
        /\ stake_account[sid].last_reward_claim < now

\* C12 (locked): before lock_until the owner's unstake_tokens fails with
\* TokensStillLocked and has written nothing.
C12_Locked ==
    \A sid \in StakeIds :
        (ActiveStake(sid) /\ ~I64Leq(stake_account[sid].lock_until, now)) =>
            ix_unstake_tokens(World, now, stake_account[sid].owner, sid)
              = Fail(World, "TokensStillLocked")

\* C12 (unlocked): from lock_until on the owner's unstake_tokens succeeds, closes
\* the stake and credits the owner with at least the principal.
C12_Unlocked ==
    \A sid \in StakeIds :
        (ActiveStake(sid) /\ I64Leq(stake_account[sid].lock_until, now)) =>
            LET st == stake_account[sid]
                r == ix_unstake_tokens(World, now, st.owner, sid)
                wallet == Wallet(st.owner, sid[2])
            IN  /\ r.err = "Ok"
                /\ ~r.w.stake_account[sid].is_active
                /\ BigLeq(BigAdd(Balance(token, wallet), st.amount),
                          Balance(r.w.token, wallet))

\* C12: the owner's unstake_tokens on an active stake fails with TokensStillLocked
\* while now < lock_until and succeeds, returning the principal and closing the
\* stake, from now = lock_until on.
C12_UnstakeAtLockUntil == C12_Locked /\ C12_Unlocked

\* C12 observed: an unstake_tokens has succeeded in the very second the lock ran
\* out, on a stake vault that had been given the tokens for the reward.
C12_Witness ==
    /\ last.op = "unstake_tokens" /\ last.err = "Ok"
    /\ \E sid \in StakeIds :
        /\ stake_account[sid] # NoAccount /\ ~stake_account[sid].is_active
        /\ stake_account[sid].lock_until = I64(now)
        /\ BigLess(stake_account[sid].amount, last.paid)

ClosedStake(sid) == stake_account[sid] # NoAccount /\ ~stake_account[sid].is_active

\* C13 (owner): on a closed stake the owner's claim_rewards and unstake_tokens fail
\* with StakeNotActive, and no caller's succeeds or pays anything.
C13_OwnerRejected ==
    \A sid \in StakeIds : ClosedStake(sid) =>
        /\ ix_claim_rewards(World, now, stake_account[sid].owner, sid).err
             = "StakeNotActive"
        /\ ix_unstake_tokens(World, now, stake_account[sid].owner, sid).err
             = "StakeNotActive"
        /\ \A caller \in Keys :
             /\ ix_claim_rewards(World, now, caller, sid).err # "Ok"
             /\ ix_unstake_tokens(World, now, caller, sid).err # "Ok"

\* C13 (closed is final): no step changes the record of a closed stake, and a
\* successful unstake_tokens only ever happens on an active stake.
C13_Frozen ==
    /\ \A sid \in StakeIds : ClosedStake(sid) => stake_account'[sid] = stake_account[sid]
    /\ (InstructionStep /\ last'.op = "unstake_tokens" /\ last'.err = "Ok") =>
          \E sid \in StakeIds : Closes(sid)

\* C13: a stake goes from active to closed only: after the unstake the owner's
\* claim_rewards and unstake_tokens fail with StakeNotActive, no caller's succeeds,
\* and the principal is paid at most once.
C13_ClosedIsFinal == []C13_OwnerRejected /\ [][C13_Frozen]_vars

\* C13 observed: the owner of a closed stake has tried to unstake it again and
\* was refused with StakeNotActive.
C13_Witness ==
    /\ last.op = "unstake_tokens" /\ last.err = "StakeNotActive"
    /\ \E sid \in StakeIds : ClosedStake(sid)

\* C14: a claim_rewards by the owner of an active stake whose reward
\* floor(amount * 5 * (now - last_reward_claim) / (100 * 31536000)) is 0 succeeds
\* with no transfer, no event and no change to any account.
C14_ZeroRewardIsNoOp ==
    \A sid \in StakeIds : ActiveStake(sid) =>
        LET st == stake_account[sid]
        IN  TrueReward(st.amount, now - st.last_reward_claim) = Zero =>
              ix_claim_rewards(World, now, st.owner, sid) = Done(World, <<>>, Zero)

\* C14 observed: half a year after staking 25 tokens the owner has claimed, the
\* reward was 0, and the call succeeded without an event and without moving
\* last_reward_claim.
C14_Witness ==
    /\ last.op = "claim_rewards" /\ last.err = "Ok" /\ last.events = <<>>
    /\ \E sid \in StakeIds :
        /\ ActiveStake(sid)
        /\ stake_account[sid].amount = Big(25)
        /\ stake_account[sid].last_reward_claim = stake_account[sid].created_at
        /\ now = stake_account[sid].created_at + HalfYear

\* C15 (the call): when the reward floor(amount * 5 * (now - last_reward_claim) /
\* (100 * 31536000)) is positive, the reward vault holds it and the owner's token
\* account has room for it, the owner's claim_rewards succeeds, moves exactly the
\* reward from the reward vault to the owner's token account, sets
\* last_reward_claim = now, leaves everything else alone and emits RewardsClaimed
\* with that amount.
C15_Call ==
    \A sid \in StakeIds : ActiveStake(sid) =>
        LET st == stake_account[sid]
            m == sid[2]
            user == Wallet(st.owner, m)
            reward == TrueReward(st.amount, now - st.last_reward_claim)
            r == ix_claim_rewards(World, now, st.owner, sid)
        IN  ( /\ BigLess(Zero, reward)
              /\ token[RewardVault(m)] # NoToken
              /\ BigLeq(reward, token[RewardVault(m)])
              /\ BigLeq(BigAdd(token[user], reward), U64Max) ) =>
                /\ r.err = "Ok"
                /\ r.paid = reward
                /\ r.w = [World EXCEPT
                            !.token[RewardVault(m)] = BigSub(token[RewardVault(m)], reward),
                            !.token[user] = BigAdd(token[user], reward),
                            !.stake_account[sid].last_reward_claim = now]
                /\ r.events = << [type |-> "RewardsClaimed", owner |-> st.owner,
                                  amount |-> reward, timestamp |-> now] >>

\* C15 (the steps): every claim_rewards that succeeds on a stake whose reward is
\* positive has paid exactly that reward.
C15_Step ==
    (InstructionStep /\ last'.op = "claim_rewards" /\ last'.err = "Ok") =>
        \E sid \in StakeIds :
            /\ ActiveStake(sid)
            /\ LET reward == TrueReward(stake_account[sid].amount,
                                        now - stake_account[sid].last_reward_claim)
               IN  last'.paid = reward

\* C15: claim_rewards by the owner of an active stake with a positive reward
\* transfers exactly floor(amount * 5 * (now - last_reward_claim) / (100 * 31536000))
\* from the reward vault to the user, sets last_reward_claim = now and emits
\* RewardsClaimed with that amount.
C15_ClaimPaysReward == []C15_Call /\ [][C15_Step]_vars

\* C15 observed: half a year after staking 1,000,000 the owner has claimed and
\* received 25,000 from the reward vault.
C15_Witness ==
    /\ last.op = "claim_rewards" /\ last.err = "Ok" /\ last.paid = Big(25000)
    /\ \E sid \in StakeIds :
        /\ ActiveStake(sid)
        /\ stake_account[sid].amount = Big(1000000)
        /\ stake_account[sid].last_reward_claim = now
        /\ now = stake_account[sid].created_at + HalfYear

\* C16 (first stake): the stake vault and the reward vault of a mint come into
\* being together, in a successful stake_tokens, and only there.
C16_VaultsCreatedByStake ==
    \A m \in TokenMints :
        (token[StakeVault(m)] = NoToken /\ token'[StakeVault(m)] # NoToken) =>
            /\ InstructionStep
            /\ last'.op = "stake_tokens" /\ last'.err = "Ok"
            /\ token[RewardVault(m)] = NoToken /\ token'[RewardVault(m)] # NoToken

\* C16 (later stake): once the vaults of a mint exist, a stake_tokens by an owner
\* who has no StakeAccount on the mint yet, with amount > 0 that the owner holds
\* and a lock period of a year, succeeds, moves the amount into the existing
\* stake vault and creates the StakeAccount of that owner.
C16_LaterStake ==
    \A m \in TokenMints, owner \in Keys, amount \in StakeAmounts \ {Zero} :
        ( /\ token[StakeVault(m)] # NoToken /\ token[RewardVault(m)] # NoToken
          /\ stake_account[<<owner, m>>] = NoAccount
          /\ BigLeq(amount, token[Wallet(owner, m)])
          /\ BigLeq(BigAdd(token[StakeVault(m)], amount), U64Max) ) =>
            LET r == ix_stake_tokens(World, now, owner, m, amount, I64(Year))
            IN  /\ r.err = "Ok"
                /\ r.w.token[StakeVault(m)] = BigAdd(token[StakeVault(m)], amount)
                /\ r.w.token[RewardVault(m)] = token[RewardVault(m)]
                /\ r.w.stake_account[<<owner, m>>].owner = owner
                /\ r.w.stake_account[<<owner, m>>].is_active

\* C16: the vaults of a mint are created by the first stake_tokens on it, and a
\* later stake_tokens on the same mint by another owner succeeds, uses those
\* vaults and creates that owner's own StakeAccount.
C16_SecondStaker == []C16_LaterStake /\ [][C16_VaultsCreatedByStake]_vars

\* C16 observed: after a first owner staked on the mint, a second owner who holds
\* tokens of the mint has called stake_tokens and was refused because the stake
\* vault already exists.
C16_Witness ==
    /\ last.op = "stake_tokens" /\ last.err = "AccountAlreadyInUse"
    /\ \E m \in TokenMints, first \in Keys, second \in Keys :
        /\ first # second
        /\ stake_account[<<first, m>>] # NoAccount
        /\ stake_account[<<second, m>>] = NoAccount
        /\ BigLess(Zero, token[Wallet(second, m)])

-----------------------------------------------------------------------------
(* Games *)

\* the token account of the game's authority for the game's reward mint
PlayerWallet(gk) == Wallet(game[gk].authority, game[gk].reward_mint)

GameEscrow(gk) == Escrow(game[gk].game_id, game[gk].reward_mint)

\* C17 (too early): less than 86400 seconds after updated_at the authority's
\* withdraw_stake fails with WithdrawalTooEarly and has written nothing.
C17_TooEarly ==
    \A gk \in GameKeys : (ActiveGame(gk) /\ now - game[gk].updated_at <= 86399) =>
        ix_withdraw_stake(World, now, game[gk].authority, gk, PlayerWallet(gk))
          = Fail(World, "WithdrawalTooEarly")

\* C17 (in time): from 86400 seconds after updated_at on the authority's
\* withdraw_stake succeeds, moves stake_amount - stake_amount / 10 from the escrow
\* to the user, leaves stake_amount / 10 in the escrow and sets status = Abandoned.
C17_Refund ==
    \A gk \in GameKeys : (ActiveGame(gk) /\ now - game[gk].updated_at >= 86400) =>
        LET g == game[gk]
            penalty == BigDivInt(g.stake_amount, 10)
            refund == BigSub(g.stake_amount, penalty)
            r == ix_withdraw_stake(World, now, g.authority, gk, PlayerWallet(gk))
        IN  /\ r.err = "Ok"
            /\ r.paid = refund
            /\ r.w.token[PlayerWallet(gk)] = BigAdd(token[PlayerWallet(gk)], refund)
            /\ r.w.token[GameEscrow(gk)] = penalty
            /\ r.w.game[gk].status = "Abandoned"
            /\ r.w.game[gk] = [g EXCEPT !.status = "Abandoned", !.updated_at = now]

Moves(gk) ==
    /\ InstructionStep
    /\ last'.op = "make_move" /\ last'.err = "Ok"
    /\ ActiveGame(gk)
    /\ game'[gk] # game[gk]

\* C19 (each move): a successful make_move adds 1 to the game's moves and 10 to
\* its score and sets updated_at = now.
C19_Step ==
    \A gk \in GameKeys : Moves(gk) =>
        /\ game'[gk].moves = game[gk].moves + 1
        /\ game'[gk].score = BigAdd(game[gk].score, Big(10))
        /\ game'[gk].updated_at = now

\* C19 (n moves): an Active game that has seen n successful make_move calls has
\* moves = n and score = 10 * n.
C19_Total ==
    \A gk \in GameKeys : ActiveGame(gk) =>
        game[gk].score = Big(10 * game[gk].moves)

\* C19: each successful make_move on an Active game increments moves by 1 and score
\* by 10 and sets updated_at = now, so that after n moves the GameAccount has
\* moves = n and score = 10 * n.
C19_MovesAndScore == []C19_Total /\ [][C19_Step]_vars

\* C19 (what the code keeps): a successful make_move adds 1 to the game's moves,
\* sets updated_at = now, adds 1 to game_state.moves and 10 to game_state.score,
\* and leaves the game's own score alone.
C19_ScoreInGameState ==
    [][\A gk \in GameKeys : Moves(gk) =>
          game'[gk] = [game[gk] EXCEPT
                         !.moves = @ + 1, !.updated_at = now,
                         !.game_state.moves = @ + 1,
                         !.game_state.score = BigAdd(@, Big(10))]]_vars

\* C19 observed: after two successful make_move calls the GameAccount has
\* moves = 2 and score = 0, the 20 points being in game_state.score.
C19_Witness ==
    /\ last.op = "make_move" /\ last.err = "Ok"
    /\ \E gk \in GameKeys :
        /\ ActiveGame(gk)
        /\ game[gk].moves = 2
        /\ game[gk].score = Zero
        /\ game[gk].game_state.score = Big(20)

\* C20: every GameAccount holds in bump the bump derived for its game_id, the one
\* complete_game and withdraw_stake put into the escrow signer's seeds.
C20_BumpPersisted ==
    \A gk \in GameKeys : game[gk] # NoAccount =>
        game[gk].bump = derived_bump[game[gk].game_id]

\* C20 observed: initialize_game has created a game whose derivation gave the bump
\* 255 and has left GameAccount.bump at 0.
C20_Witness ==
    /\ last.op = "initialize_game" /\ last.err = "Ok"
    /\ \E gk \in GameKeys :
        /\ ActiveGame(gk)
        /\ derived_bump[game[gk].game_id] = 255
        /\ game[gk].bump = 0

-----------------------------------------------------------------------------
(* Memecoin pools, rewards and airdrops *)

\* floor(total_supply * pct / 100) over the naturals
TrueShare(total_supply, pct) == BigDivInt(BigMul(total_supply, Big(pct)), 100)

PoolSum(cfg) ==
    BigSum(<<cfg.game_rewards_pool, cfg.liquidity_pool, cfg.team_allocation,
             cfg.community_allocation>>)

DivisibleBy10(n) == BigMul(BigDivInt(n, 10), Big(10)) = n

\* C21: every MemecoinConfig that initialize_memecoin created has total_supply > 0
\* and the pools floor(total_supply * 40 / 100), floor(total_supply * 30 / 100),
\* floor(total_supply * 20 / 100) and floor(total_supply * 10 / 100); their sum is
\* at most total_supply, and equal to it exactly when total_supply % 10 = 0.
C21_Pools ==
    \A m \in MemeMints : memecoin_config[m] # NoAccount =>
        LET cfg == memecoin_config[m]
        IN  /\ BigLess(Zero, cfg.total_supply)
            /\ cfg.game_rewards_pool = TrueShare(cfg.total_supply, 40)
            /\ cfg.liquidity_pool = TrueShare(cfg.total_supply, 30)
            /\ cfg.team_allocation = TrueShare(cfg.total_supply, 20)
            /\ cfg.community_allocation = TrueShare(cfg.total_supply, 10)
            /\ BigLeq(PoolSum(cfg), cfg.total_supply)
            /\ (PoolSum(cfg) = cfg.total_supply) <=> DivisibleBy10(cfg.total_supply)

\* C21 observed: initialize_memecoin has accepted a total supply of 1000 and set
\* the pools to 400, 300, 200 and 100.
C21_Witness ==
    /\ last.op = "initialize_memecoin" /\ last.err = "Ok"
    /\ \E m \in MemeMints :
        /\ memecoin_config[m] # NoAccount
        /\ memecoin_config[m].total_supply = Big(1000)
        /\ memecoin_config[m].game_rewards_pool = Big(400)
        /\ memecoin_config[m].liquidity_pool = Big(300)
        /\ memecoin_config[m].team_allocation = Big(200)
        /\ memecoin_config[m].community_allocation = Big(100)
        /\ PoolSum(memecoin_config[m]) = memecoin_config[m].total_supply

\* C21 in a build with overflow checks: there every accepted supply has the
\* pools of the formula.
C21_PoolsChecked == overflow_checks => C21_Pools

RewardsPool(m) == Pool("game_rewards", m)

\* C22 (rejection): while the game rewards account holds less than amount, no
\* distribute_game_rewards of that amount succeeds, and the authority's call for
\* a playable game id and a pair without RewardAccount fails with
\* InsufficientRewards.
C22_Rejected ==
    \A m \in MemeMints :
        (memecoin_config[m] # NoAccount /\ token[RewardsPool(m)] # NoToken) =>
            \A rid \in RewardIds, amount \in RewardAmounts :
                BigLess(token[RewardsPool(m)], amount) =>
                    /\ \A caller \in Keys :
                         ix_distribute_game_rewards(World, now, caller, m, rid[1],
                                                    amount, rid[2]).err # "Ok"
                    /\ (reward_account[rid] = NoAccount /\ GameIdLen(rid[2]) <= 32) =>
                         ix_distribute_game_rewards(World, now,
                                                    memecoin_config[m].authority, m,
                                                    rid[1], amount, rid[2]).err
                           = "InsufficientRewards"

\* C22 (effect): a failed distribute_game_rewards moves no tokens and leaves no
\* RewardAccount behind; a successful one takes exactly the amount it pays out of
\* the game rewards account, which held at least that much.
C22_Step ==
    (InstructionStep /\ last'.op = "distribute_game_rewards") =>
        IF last'.err # "Ok"
        THEN token' = token /\ reward_account' = reward_account
        ELSE \E m \in MemeMints :
                /\ BigLess(Zero, last'.paid)
                /\ BigLeq(last'.paid, token[RewardsPool(m)])
                /\ token'[RewardsPool(m)] = BigSub(token[RewardsPool(m)], last'.paid)
                /\ \E rid \in RewardIds :
                    /\ reward_account[rid] = NoAccount
                    /\ reward_account'[rid] # NoAccount
                    /\ reward_account'[rid].amount = last'.paid
                    /\ token'[Wallet(rid[1], m)] =
                         BigAdd(Balance(token, Wallet(rid[1], m)), last'.paid)

AirdropPool(m) == Pool("airdrop_pool", m)

\* an unclaimed airdrop of k on mint m whose airdrop pool and recipient token
\* account exist
Unclaimed(k, m) ==
    /\ airdrop_account[k] # NoAccount
    /\ ~airdrop_account[k].claimed
    /\ airdrop_account[k].mint = m
    /\ token[AirdropPool(m)] # NoToken
    /\ token[Wallet(k, m)] # NoToken

\* the world after recipient k has been paid the airdrop at time clock
AfterClaim(k, m, clock) ==
    [World EXCEPT
        !.token = [token EXCEPT
            ![AirdropPool(m)] = BigSub(token[AirdropPool(m)], airdrop_account[k].amount),
            ![Wallet(k, m)] = BigAdd(token[Wallet(k, m)], airdrop_account[k].amount)],
        !.airdrop_account[k].claimed = TRUE,
        !.airdrop_account[k].claimed_at = <<clock>>]

\* C23 (too early): while now < claimable_at the recipient's claim_airdrop fails
\* with AirdropNotAvailable and has written nothing.
C23_TooEarly ==
    \A k \in Keys, m \in MemeMints :
        (Unclaimed(k, m) /\ now < airdrop_account[k].claimable_at) =>
            ix_claim_airdrop(World, now, k, k, m) = Fail(World, "AirdropNotAvailable")

\* C23 (as stated): at now == claimable_at the recipient's claim_airdrop succeeds.
C23_SucceedsAtClaimableAt ==
    \A k \in Keys, m \in MemeMints :
        (Unclaimed(k, m) /\ now = airdrop_account[k].claimable_at) =>
            ix_claim_airdrop(World, now, k, k, m).err = "Ok"

\* C23 (from claimable_at on): at now >= claimable_at the recipient's
\* claim_airdrop succeeds exactly when the airdrop pool holds the amount; it then
\* moves exactly amount from the pool to the recipient's token account and sets
\* claimed = true and claimed_at = now; otherwise it fails with the Token
\* Service's InsufficientFunds and has written nothing.
C23_FromClaimableAt ==
    \A k \in Keys, m \in MemeMints :
        (Unclaimed(k, m) /\ now >= airdrop_account[k].claimable_at) =>
            LET r == ix_claim_airdrop(World, now, k, k, m)
            IN  IF BigLeq(airdrop_account[k].amount, token[AirdropPool(m)])
                THEN /\ r.err = "Ok"
                     /\ r.w = AfterClaim(k, m, now)
                     /\ r.paid = airdrop_account[k].amount
                ELSE r = Fail(World, "InsufficientFunds")

\* C23 (amended): claim_airdrop by the recipient of an unclaimed airdrop fails with
\* AirdropNotAvailable, leaving claimed = false and transferring nothing, whenever
\* now < claimable_at; from now == claimable_at on it succeeds if the airdrop
\* pool holds amount, transferring exactly amount and setting claimed = true and
\* claimed_at = now, and fails without effect if the pool holds less.
C23_TimeGate == C23_TooEarly /\ C23_FromClaimableAt

\* C23 witness: the airdrop of 500 set up for now + 3600 was refused 3599 seconds
\* later and has been paid at exactly claimable_at.
C23_Witness ==
    /\ last.op = "claim_airdrop" /\ last.err = "Ok"
    /\ \E k \in Keys, m \in MemeMints :
        /\ Claimed(k)
        /\ airdrop_account[k].amount = Big(500)
        /\ airdrop_account[k].claimable_at = airdrop_account[k].created_at + 3600
        /\ airdrop_account[k].claimed_at = <<airdrop_account[k].claimable_at>>
        /\ now = airdrop_account[k].claimable_at
        /\ token[AirdropPool(m)] = Zero

\* claim times around the clock: a second before, the clock itself, a second and
\* an hour after
ClaimTimes == {now - 1, now, now + 1, now + 3600}

\* C24 (calls): a caller who has an AirdropAccount is refused; for a caller who has
\* none, amount 0 fails with InvalidAmount, a positive amount with
\* claimable_at <= now fails with InvalidClaimTime, and a positive amount with
\* claimable_at > now is accepted.
C24_Calls ==
    \A caller \in Keys, m \in MemeMints : memecoin_config[m] # NoAccount =>
        \A amount \in AirdropAmounts, c \in ClaimTimes :
            LET r == ix_setup_airdrop_account(World, now, caller, m, amount, c)
            IN  IF airdrop_account[caller] # NoAccount
                THEN r = Fail(World, "AccountAlreadyInUse")
                ELSE IF amount = Zero THEN r.err = "InvalidAmount"
                ELSE IF c <= now THEN r.err = "InvalidClaimTime"
                ELSE r.err = "Ok"

\* C24 (records): every AirdropAccount belongs to the recipient of its address and
\* has amount > 0 and claimable_at > created_at.
C24_Records ==
    \A k \in Keys : airdrop_account[k] # NoAccount =>
        /\ airdrop_account[k].recipient = k
        /\ BigLess(Zero, airdrop_account[k].amount)
        /\ airdrop_account[k].claimable_at > airdrop_account[k].created_at

\* C24 (creation): a successful setup_airdrop_account creates the AirdropAccount
\* of one recipient who had none, with claimed = false and created_at = now; a
\* failed one creates nothing; an existing AirdropAccount keeps its recipient,
\* amount, claimable_at and created_at.
C24_Step ==
    /\ \A k \in Keys : airdrop_account[k] # NoAccount =>
         /\ airdrop_account'[k] # NoAccount
         /\ airdrop_account'[k].recipient = airdrop_account[k].recipient
         /\ airdrop_account'[k].amount = airdrop_account[k].amount
         /\ airdrop_account'[k].claimable_at = airdrop_account[k].claimable_at
         /\ airdrop_account'[k].created_at = airdrop_account[k].created_at
    /\ (InstructionStep /\ last'.op = "setup_airdrop_account") =>
         IF last'.err # "Ok" THEN airdrop_account' = airdrop_account
         ELSE \E k \in Keys :
                /\ airdrop_account[k] = NoAccount
                /\ airdrop_account'[k] # NoAccount
                /\ ~airdrop_account'[k].claimed
                /\ airdrop_account'[k].claimed_at = <<>>
                /\ airdrop_account'[k].created_at = now
                /\ \A j \in Keys \ {k} : airdrop_account'[j] = airdrop_account[j]
    /\ (InstructionStep /\ last'.op # "setup_airdrop_account") =>
         \A k \in Keys : airdrop_account[k] = NoAccount => airdrop_account'[k] = NoAccount

\* C24: setup_airdrop_account creates at most one AirdropAccount per recipient (a
\* second call by the same caller fails), rejects amount = 0 with InvalidAmount
\* and claimable_at <= now with InvalidClaimTime, and every AirdropAccount it
\* creates has claimed = false, amount > 0 and claimable_at > created_at.
C24_OneAirdropPerRecipient == []C24_Calls /\ []C24_Records /\ [][C24_Step]_vars

\* C24 witness: a recipient who holds an unclaimed airdrop of 500 has called
\* setup_airdrop_account again and was refused.
C24_Witness ==
    /\ last.op = "setup_airdrop_account" /\ last.err = "AccountAlreadyInUse"
    /\ \E k \in Keys :
        /\ airdrop_account[k] # NoAccount
        /\ ~airdrop_account[k].claimed
        /\ airdrop_account[k].amount = Big(500)
        /\ airdrop_account[k].claimable_at = airdrop_account[k].created_at + 3600

-----------------------------------------------------------------------------
(* Solitaire: the win flag, the escrow and the counters *)

\* C25 (flags): no game has is_won set, in the GameAccount or in its game_state.
C25_NeverWon ==
    \A gk \in GameKeys : game[gk] # NoAccount =>
        ~game[gk].is_won /\ ~game[gk].game_state.is_won

\* C25 (steps): a successful make_move leaves the game Active and emits MoveMade
\* only; a game becomes Completed only in a successful complete_game; and a
\* successful complete_game pays floor(stake_amount / 2).
C25_Step ==
    /\ (InstructionStep /\ last'.op = "make_move" /\ last'.err = "Ok") =>
         /\ \A gk \in GameKeys : ActiveGame(gk) => game'[gk].status = "Active"
         /\ \A i \in 1..Len(last'.events) : last'.events[i].type = "MoveMade"
    /\ \A gk \in GameKeys :
         ( /\ game'[gk] # NoAccount /\ game'[gk].status = "Completed"
           /\ ~(game[gk] # NoAccount /\ game[gk].status = "Completed") ) =>
             /\ InstructionStep
             /\ last'.op = "complete_game" /\ last'.err = "Ok"
    /\ (InstructionStep /\ last'.op = "complete_game" /\ last'.err = "Ok") =>
         \E gk \in GameKeys :
            /\ ActiveGame(gk)
            /\ game'[gk].status = "Completed"
            /\ last'.paid = BigDivInt(game[gk].stake_amount, 2)
            /\ token'[GameEscrow(gk)] = BigSub(token[GameEscrow(gk)], last'.paid)

\* C25: in every reachable state GameAccount.is_won and game_state.is_won are
\* false; make_move never moves a game to Completed or emits GameCompleted, a game
\* reaches Completed only through complete_game, and every successful
\* complete_game pays floor(stake_amount / 2).
C25_WinIsUnreachable == []C25_NeverWon /\ [][C25_Step]_vars

\* C25 witness: a game with stake 25 took two moves, stayed Active, and has been
\* completed for a payout of 12.
C25_Witness ==
    /\ last.op = "complete_game" /\ last.err = "Ok" /\ last.paid = Big(12)
    /\ \E gk \in GameKeys :
        /\ game[gk] # NoAccount
        /\ game[gk].status = "Completed"
        /\ game[gk].stake_amount = Big(25)
        /\ game[gk].moves = 2
        /\ ~game[gk].is_won

\* what the escrow of a game holds after its settlement
Remainder(g) ==
    IF g.status = "Completed"
    THEN BigSub(g.stake_amount, BigDivInt(g.stake_amount, 2))
    ELSE BigDivInt(g.stake_amount, 10)

\* C26 (balance): the escrow of an Active game holds its stake_amount; after
\* completion it holds stake_amount - floor(stake_amount / 2), after abandonment
\* floor(stake_amount / 10).
C26_EscrowBalance ==
    \A gk \in GameKeys : game[gk] # NoAccount =>
        token[GameEscrow(gk)] =
            IF game[gk].status = "Active" THEN game[gk].stake_amount
            ELSE Remainder(game[gk])

\* C26 (no later instruction): on a settled game no complete_game, withdraw_stake
\* or make_move succeeds, and no initialize_game can reuse its game id.
C26_NoLaterPayout ==
    \A gk \in GameKeys : Terminal(gk) =>
        /\ \A caller \in Keys : \A user \in UserWallets(caller) :
             /\ ix_withdraw_stake(World, now, caller, gk, user).err # "Ok"
             /\ ix_make_move(World, now, caller, gk).err # "Ok"
             /\ \A final_score \in FinalScores :
                  ix_complete_game(World, now, caller, gk, user, final_score).err # "Ok"
        /\ \A caller \in Keys, stake_amount \in GameStakes, m \in GameMints :
             ix_initialize_game(World, now, caller, game[gk].game_id, stake_amount,
                                m).err # "Ok"

\* C26 (payouts): the escrow of a game loses tokens only in a successful
\* complete_game or withdraw_stake on the Active game, which settles it and pays
\* at most stake_amount; once the game is settled, the game and its escrow never
\* change again.
C26_Step ==
    \A gk \in GameKeys : game[gk] # NoAccount =>
        /\ Terminal(gk) =>
             game'[gk] = game[gk] /\ token'[GameEscrow(gk)] = token[GameEscrow(gk)]
        /\ token'[GameEscrow(gk)] # token[GameEscrow(gk)] =>
             /\ InstructionStep
             /\ last'.op \in {"complete_game", "withdraw_stake"} /\ last'.err = "Ok"
             /\ ActiveGame(gk)
             /\ game'[gk].status # "Active"
             /\ BigLeq(last'.paid, game[gk].stake_amount)
             /\ token'[GameEscrow(gk)] = BigSub(token[GameEscrow(gk)], last'.paid)

\* C26: for every game at most one of complete_game and withdraw_stake ever
\* succeeds and the total paid out of the game's escrow is at most stake_amount;
\* the escrow balance never goes below zero, and the remainder
\* (stake_amount - floor(stake_amount / 2) after completion,
\* floor(stake_amount / 10) after abandonment) is never withdrawn by any later
\* instruction.
C26_EscrowPaysOnce == []C26_EscrowBalance /\ []C26_NoLaterPayout /\ [][C26_Step]_vars

\* C26 witness: a game with stake 25 was abandoned for a refund of 23, its escrow
\* keeps 2, and a complete_game on it has been refused.
C26_Witness ==
    /\ last.op = "complete_game" /\ last.err = "GameNotActive"
    /\ \E gk \in GameKeys :
        /\ game[gk] # NoAccount
        /\ game[gk].status = "Abandoned"
        /\ game[gk].stake_amount = Big(25)
        /\ token[GameEscrow(gk)] = Big(2)
        /\ token[PlayerWallet(gk)] = Big(98)

\* a successful withdraw_stake step that has abandoned game gk
Withdraws(gk) ==
    /\ InstructionStep
    /\ last'.op = "withdraw_stake" /\ last'.err = "Ok"
    /\ ActiveGame(gk)
    /\ game'[gk].status = "Abandoned"

\* C27 (refusal): while less than 86400 seconds have passed since updated_at, no
\* withdraw_stake on the game succeeds; updated_at of an Active game lies between
\* created_at and now.
C27_Refused ==
    \A gk \in GameKeys : ActiveGame(gk) =>
        /\ game[gk].created_at <= game[gk].updated_at
        /\ game[gk].updated_at <= now
        /\ now - game[gk].updated_at < 86400 =>
             \A caller \in Keys : \A user \in UserWallets(caller) :
                ix_withdraw_stake(World, now, caller, gk, user).err # "Ok"

\* C27 (updated_at): initialize_game sets created_at = updated_at = now, every
\* successful make_move sets updated_at = now, nothing else changes the two fields
\* of a game that stays Active, and a successful withdraw_stake happens at least
\* 86400 seconds after the updated_at and the created_at it found.
C27_Step ==
    \A gk \in GameKeys :
        /\ (game[gk] = NoAccount /\ game'[gk] # NoAccount) =>
             game'[gk].created_at = now /\ game'[gk].updated_at = now
        /\ Moves(gk) =>
             /\ game'[gk].updated_at = now
             /\ game'[gk].created_at = game[gk].created_at
             /\ game'[gk].status = "Active"
        /\ (ActiveGame(gk) /\ ~Moves(gk) /\ game'[gk].status = "Active") =>
             /\ game'[gk].updated_at = game[gk].updated_at
             /\ game'[gk].created_at = game[gk].created_at
        /\ Withdraws(gk) =>
             /\ now - game[gk].updated_at >= 86400
             /\ now - game[gk].created_at >= 86400

\* C27: withdraw_stake succeeds only if at least 86400 seconds have passed since the
\* later of the game's creation and its most recent successful make_move: each
\* successful make_move sets updated_at = now and so restarts the inactivity
\* period.
C27_InactivityPeriod == []C27_Refused /\ [][C27_Step]_vars

\* C27 witness: 86400 seconds after its creation, but one second after its only
\* move, a game's withdraw_stake has been refused with WithdrawalTooEarly.
C27_Witness ==
    /\ last.op = "withdraw_stake" /\ last.err = "WithdrawalTooEarly"
    /\ \E gk \in GameKeys :
        /\ ActiveGame(gk)
        /\ game[gk].moves = 1
        /\ now = game[gk].created_at + 86400
        /\ game[gk].updated_at = game[gk].created_at + 86399

\* C28 (counters agree): the two move counters of a game are equal and
\* game_state.score is 10 times their value.
C28_CountersAgree ==
    \A gk \in GameKeys : game[gk] # NoAccount =>
        /\ game[gk].moves = game[gk].game_state.moves
        /\ game[gk].game_state.score = Big(10 * game[gk].moves)

\* C28 (counting): a game starts with both counters and game_state.score at 0, a
\* successful make_move adds exactly 1 to each counter and 10 to game_state.score,
\* and no other step changes them.
C28_Step ==
    \A gk \in GameKeys :
        /\ (game[gk] = NoAccount /\ game'[gk] # NoAccount) =>
             /\ game'[gk].moves = 0
             /\ game'[gk].game_state.moves = 0
             /\ game'[gk].game_state.score = Zero
        /\ Moves(gk) =>
             /\ game'[gk].moves = game[gk].moves + 1
             /\ game'[gk].game_state.moves = game[gk].game_state.moves + 1
             /\ game'[gk].game_state.score = BigAdd(game[gk].game_state.score, Big(10))
        /\ (game[gk] # NoAccount /\ ~Moves(gk)) =>
             /\ game'[gk].moves = game[gk].moves
             /\ game'[gk].game_state.moves = game[gk].game_state.moves
             /\ game'[gk].game_state.score = game[gk].game_state.score
        /\ (InstructionStep /\ last'.op = "make_move" /\ last'.err = "Ok"
              /\ last'.events[1].game_id = gk[2] /\ last'.events[1].player = gk[1]) =>
             Moves(gk)

\* C28: in every reachable state GameAccount.moves equals game_state.moves and
\* equals the number of successful make_move calls on that game, and
\* game_state.score equals 10 times that number.
C28_MoveCount == []C28_CountersAgree /\ [][C28_Step]_vars

\* C28 witness: the second successful make_move on a game has left both counters
\* at 2 and game_state.score at 20.
C28_Witness ==
    /\ last.op = "make_move" /\ last.err = "Ok"
    /\ Len(last.events) = 1 /\ last.events[1].moves = 2
    /\ \E gk \in GameKeys :
        /\ game[gk] # NoAccount
        /\ game[gk].moves = 2
        /\ game[gk].game_state.moves = 2
        /\ game[gk].game_state.score = Big(20)

-----------------------------------------------------------------------------
(* Gaming token: what the rewards add up to and which accounts they touch *)

\* C29 (total): what claim_rewards has paid to a stake so far is at most
\* floor(amount * 5 * (t - created_at) / (100 * 31536000)), for t the time of the
\* last paying claim and so for t = now.
C29_Total ==
    \A sid \in StakeIds :
        IF stake_account[sid] = NoAccount THEN rewards_claimed[sid] = Zero
        ELSE LET st == stake_account[sid]
             IN  /\ st.created_at <= st.last_reward_claim
                 /\ st.last_reward_claim <= now
                 /\ BigLeq(rewards_claimed[sid],
                           TrueReward(st.amount, st.last_reward_claim - st.created_at))
                 /\ BigLeq(rewards_claimed[sid],
                           TrueReward(st.amount, now - st.created_at))

\* C29 (advance): last_reward_claim of a stake changes only in a successful
\* claim_rewards that pays a positive reward, and then becomes now; a
\* claim_rewards that pays nothing leaves it as it was.
C29_Step ==
    \A sid \in StakeIds : stake_account[sid] # NoAccount =>
        /\ stake_account'[sid].last_reward_claim # stake_account[sid].last_reward_claim =>
             /\ InstructionStep
             /\ last'.op = "claim_rewards" /\ last'.err = "Ok"
             /\ BigLess(Zero, last'.paid)
             /\ ActiveStake(sid)
             /\ stake_account'[sid].last_reward_claim = now
             /\ rewards_claimed'[sid] = BigAdd(rewards_claimed[sid], last'.paid)
        /\ rewards_claimed'[sid] # rewards_claimed[sid] =>
             stake_account'[sid].last_reward_claim = now

\* C29: for an active stake the sum of all claim_rewards payouts between
\* created_at and a time t is at most
\* floor(amount * 5 * (t - created_at) / (100 * 31536000)), and last_reward_claim
\* advances only when a positive reward is paid.
C29_RewardsBounded == []C29_Total /\ [][C29_Step]_vars

\* C29 witness: a stake of 1,000,000 was paid 25,000 after half a year and again
\* after a year, 50,000 in all, which is 5% of it.
C29_Witness ==
    /\ last.op = "claim_rewards" /\ last.err = "Ok" /\ last.paid = Big(25000)
    /\ \E sid \in StakeIds :
        /\ ActiveStake(sid)
        /\ stake_account[sid].amount = Big(1000000)
        /\ now = stake_account[sid].created_at + Year
        /\ stake_account[sid].last_reward_claim = now
        /\ rewards_claimed[sid] = Big(50000)

\* a successful claim_rewards step that has paid a reward to stake sid
Claims(sid) ==
    /\ InstructionStep
    /\ last'.op = "claim_rewards" /\ last'.err = "Ok"
    /\ ActiveStake(sid)
    /\ stake_account'[sid].last_reward_claim # stake_account[sid].last_reward_claim

\* the ledger changes at most at the two named accounts
OnlyMoved(from, to) ==
    \A a \in TokenAccounts \ {from, to} : token'[a] = token[a]

\* C30 (unstake): a successful unstake_tokens takes amount + reward, the two parts
\* its event reports, out of the stake vault and gives it to the owner's account;
\* the reward vault, every other token account, last_reward_claim and the
\* MintConfig are unchanged.
C30_Unstake ==
    \A sid \in StakeIds : Closes(sid) =>
        LET st == stake_account[sid]
            ev == last'.events[1]
        IN  /\ ev.principal = st.amount
            /\ last'.paid = BigAdd(st.amount, ev.reward)
            /\ token'[StakeVault(sid[2])] = BigSub(token[StakeVault(sid[2])], last'.paid)
            /\ token'[Wallet(sid[1], sid[2])] =
                 BigAdd(token[Wallet(sid[1], sid[2])], last'.paid)
            /\ token'[RewardVault(sid[2])] = token[RewardVault(sid[2])]
            /\ OnlyMoved(StakeVault(sid[2]), Wallet(sid[1], sid[2]))
            /\ stake_account'[sid].last_reward_claim = st.last_reward_claim
            /\ mint_config' = mint_config

\* C30 (claim): a successful claim_rewards that pays takes the reward out of the
\* reward vault and gives it to the owner's account; the stake vault, every other
\* token account, the stake's amount, lock_until, created_at and is_active and
\* the MintConfig are unchanged.
C30_Claim ==
    \A sid \in StakeIds : Claims(sid) =>
        LET st == stake_account[sid]
        IN  /\ BigLess(Zero, last'.paid)
            /\ token'[RewardVault(sid[2])] = BigSub(token[RewardVault(sid[2])], last'.paid)
            /\ token'[Wallet(sid[1], sid[2])] =
                 BigAdd(token[Wallet(sid[1], sid[2])], last'.paid)
            /\ token'[StakeVault(sid[2])] = token[StakeVault(sid[2])]
            /\ OnlyMoved(RewardVault(sid[2]), Wallet(sid[1], sid[2]))
            /\ stake_account'[sid] = [st EXCEPT !.last_reward_claim = now]
            /\ mint_config' = mint_config

\* C30: unstake_tokens debits amount + reward from the stake vault only and leaves
\* the reward vault balance, last_reward_claim and MintConfig.total_supply
\* unchanged; claim_rewards debits the reward vault only and leaves the stake
\* vault balance and the stake's amount, lock_until, created_at and is_active
\* unchanged.
C30_VaultsKeptApart == [][C30_Unstake /\ C30_Claim]_vars

\* C30 in a build with overflow checks: there every successful unstake_tokens and
\* claim_rewards touches the accounts and fields of the claim only.
C30_VaultsKeptApartChecked == [][overflow_checks => (C30_Unstake /\ C30_Claim)]_vars

\* C30 observed: half a year after staking 1,000,000, claim_rewards has paid 25,000
\* out of a reward vault of 1,000,000 and left the 1,000,000 of the stake vault.
C30_Witness ==
    /\ last.op = "claim_rewards" /\ last.err = "Ok" /\ last.paid = Big(25000)
    /\ \E sid \in StakeIds :
        /\ ActiveStake(sid)
        /\ stake_account[sid].amount = Big(1000000)
        /\ token[StakeVault(sid[2])] = Big(1000000)
        /\ token[RewardVault(sid[2])] = Big(975000)
        /\ token[Wallet(sid[1], sid[2])] = Big(25000)

\* C31 (new stake refused): once the StakeAccount of (owner, mint) exists, active
\* or closed, every stake_tokens by that owner on that mint fails in account
\* validation and writes nothing.
C31_RestakeRefused ==
    \A sid \in StakeIds : stake_account[sid] # NoAccount =>
        \A amount \in StakeAmounts, lp \in LockPeriods :
            ix_stake_tokens(World, now, sid[1], sid[2], amount, lp)
              = Fail(World, "AccountAlreadyInUse")

\* C31 (steps): a StakeAccount never disappears and a closed one never becomes
\* active again; a StakeAccount appears only in a successful stake_tokens, which
\* creates the active record of exactly one pair that had none.
C31_Step ==
    /\ \A sid \in StakeIds : stake_account[sid] # NoAccount =>
         /\ stake_account'[sid] # NoAccount
         /\ ~stake_account[sid].is_active => ~stake_account'[sid].is_active
    /\ \A sid \in StakeIds :
         (stake_account[sid] = NoAccount /\ stake_account'[sid] # NoAccount) =>
            /\ InstructionStep
            /\ last'.op = "stake_tokens" /\ last'.err = "Ok"
            /\ stake_account'[sid].is_active
            /\ stake_account'[sid].owner = sid[1]
    /\ (InstructionStep /\ last'.op = "stake_tokens" /\ last'.err = "Ok") =>
         \E sid \in StakeIds :
            /\ stake_account[sid] = NoAccount
            /\ stake_account'[sid] # NoAccount
            /\ \A other \in StakeIds \ {sid} : stake_account'[other] = stake_account[other]

\* C31: a StakeAccount's is_active never changes from false to true: after
\* unstake_tokens the record of (owner, mint) still exists, so a new stake_tokens
\* by the same owner on the same mint fails, and each (owner, mint) pair has at
\* most one successful stake_tokens over any sequence of instructions.
C31_StakedOnce == []C31_RestakeRefused /\ [][C31_Step]_vars

\* C31 witness: after a stake was closed by unstake_tokens, with its owner's
\* account holding the principal again, a stake_tokens has been refused because
\* the account exists.
C31_Witness ==
    /\ last.op = "stake_tokens" /\ last.err = "AccountAlreadyInUse"
    /\ \E sid \in StakeIds :
        /\ ClosedStake(sid)
        /\ BigLeq(stake_account[sid].amount, token[Wallet(sid[1], sid[2])])

====
